---- MODULE Spec2Model ----
(***************************************************************************)
(* Auto_EDA_with_RAG: the statistics-driven preprocessing rules and the    *)
(* PreprocessingPipeline that applies them.                                *)
(*                                                                         *)
(* A dataset (pandas DataFrame) is a record                                *)
(*   idx   : the row labels, in row order (a sequence without repeats)     *)
(*   cols  : column name -> (row label -> value)                           *)
(*   dtype : column name -> "int" | "float" | "datetime" | "object" (the    *)
(*           non-missing values are strings)                               *)
(*   root  : column name -> a positive rational r; the value held by the   *)
(*           column at a row is cols[c][i] / sqrt(r) (r = 1 unless the     *)
(*           column went through StandardScaler)                           *)
(*   form  : column name -> "lin" | "log1p" (np.log1p applied)             *)
(* A value is a rational <<n, d>> with d > 0 in lowest terms, or NaN,      *)
(* written <<0, 0>>.                                                       *)
(***************************************************************************)
EXTENDS Integers, Sequences, FiniteSets, TLC

VARIABLES pc, df, column_stats, save_output, hist, csv_written, returned, error,
          target_column, task_type, rules, plots,
          caller_df, aliased,
          use_llm_summary, profile, model, summary, feature_importances, llm_calls,
          result

\* the arguments and locals of the direct calls and of the visualization
call == <<target_column, task_type, rules, plots>>

\* the DataFrame object the caller passed in, as the caller sees it, and
\* whether the local name df of the running function is still bound to it
caller == <<caller_df, aliased>>

\* EDAEngine: the constructor flag, what the profile report at
\* profile_json_path holds, the model argument of run, its locals summary and
\* feature_importances, the calls made to the LLM client and the dict run
\* returns
engine == <<use_llm_summary, profile, model, summary, feature_importances, llm_calls,
            result>>

vars == <<pc, df, column_stats, save_output, hist, csv_written, returned, error, call,
          caller, engine>>

\* ---------------------------------------------------------------- bounds
NRows == 5
MaxVal == 2

\* ---------------------------------------------------------------- numbers
NaN == <<0, 0>>
IsNaN(x) == x[2] = 0
Abs(n) == IF n < 0 THEN -n ELSE n

RECURSIVE GCD(_, _)
GCD(a, b) == IF b = 0 THEN a ELSE GCD(b, a % b)

Rat(n, d) ==
  LET s == IF d < 0 THEN -1 ELSE 1
      g == GCD(Abs(n), Abs(d))
  IN  IF n = 0 THEN <<0, 1>> ELSE <<(s * n) \div g, (s * d) \div g>>

Num(n) == <<n, 1>>
LCM(a, b) == (a \div GCD(a, b)) * b
\* The numerator of x over the denominator L, a multiple of x's own.
Over(x, L) == x[1] * (L \div x[2])
RAdd(x, y) == LET L == LCM(x[2], y[2]) IN Rat(Over(x, L) + Over(y, L), L)
RSub(x, y) == LET L == LCM(x[2], y[2]) IN Rat(Over(x, L) - Over(y, L), L)
RMul(x, y) ==
  LET g == GCD(Abs(x[1]), y[2])
      h == GCD(Abs(y[1]), x[2])
  IN  IF x[1] = 0 \/ y[1] = 0 THEN <<0, 1>>
      ELSE Rat((x[1] \div g) * (y[1] \div h), (x[2] \div h) * (y[2] \div g))
RDiv(x, y) == RMul(x, IF y[1] < 0 THEN <<-y[2], -y[1]>> ELSE <<y[2], y[1]>>)
RLt(x, y) == LET L == LCM(x[2], y[2]) IN Over(x, L) < Over(y, L)
RLe(x, y) == LET L == LCM(x[2], y[2]) IN Over(x, L) <= Over(y, L)
\* x > K for an integer K >= 0, without multiplying K by the denominator.
RGtInt(x, K) == (x[1] \div x[2] > K) \/ (x[1] \div x[2] = K /\ x[1] % x[2] > 0)
IsIntegral(x) == x[2] = 1

\* Comparisons with NaN are False, as in IEEE arithmetic and in pandas.
Lt(x, y) == ~IsNaN(x) /\ ~IsNaN(y) /\ RLt(x, y)
Le(x, y) == ~IsNaN(x) /\ ~IsNaN(y) /\ RLe(x, y)

Range(s) == {s[k] : k \in 1..Len(s)}

\* Sums over the rows S, one row after the other.
Only(S) == CHOOSE i \in S : TRUE

RECURSIVE RSum(_, _)
RSum(S, f) ==
  IF S = {} THEN Num(0)
  ELSE LET i == Only(S) IN RAdd(f[i], RSum(S \ {i}, f))

RECURSIVE ISum(_, _)
ISum(S, f) ==
  IF S = {} THEN 0
  ELSE LET i == Only(S) IN f[i] + ISum(S \ {i}, f)

RECURSIVE SetGCD(_, _)
SetGCD(S, f) ==
  IF S = {} THEN 0
  ELSE LET i == Only(S) IN GCD(Abs(f[i]), SetGCD(S \ {i}, f))

RECURSIVE SetLCM(_, _)
SetLCM(S, f) ==
  IF S = {} THEN 1
  ELSE LET i == Only(S) IN LCM(f[i], SetLCM(S \ {i}, f))

\* ---------------------------------------------------------------- series
\* A series is a pair (S, f): the row labels S and the values f[i], i in S.
NotNull(S, f) == {i \in S : ~IsNaN(f[i])}

\* The k-th smallest value (k = 0 is the minimum) of a series without NaN.
Kth(S, f, k) ==
  CHOOSE v \in {f[i] : i \in S} :
    /\ Cardinality({i \in S : RLt(f[i], v)}) <= k
    /\ k < Cardinality({i \in S : RLe(f[i], v)})

\* Series.quantile(qn/qd), linear interpolation between the two nearest
\* order statistics; NaN for an empty series.
Quantile(S, f, qn, qd) ==
  IF S = {} THEN NaN
  ELSE LET n  == Cardinality(S)
           lo == ((n - 1) * qn) \div qd
           r  == ((n - 1) * qn) % qd
       IN  IF r = 0 THEN Kth(S, f, lo)
           ELSE RAdd(Kth(S, f, lo),
                     RMul(Rat(r, qd), RSub(Kth(S, f, lo + 1), Kth(S, f, lo))))

Mean(S, f) == IF S = {} THEN NaN ELSE RDiv(RSum(S, f), Num(Cardinality(S)))
Median(S, f) == Quantile(S, f, 1, 2)
NUnique(S, f) == Cardinality({f[i] : i \in S})

\* Series.mode(): the most frequent values, ascending; mode()[0] is the
\* smallest of them. The series must not be empty.
ModeSet(S, f) ==
  {v \in {f[i] : i \in S} :
     \A w \in {f[i] : i \in S} :
        Cardinality({i \in S : f[i] = w}) <= Cardinality({i \in S : f[i] = v})}
Mode0(S, f) == CHOOSE v \in ModeSet(S, f) : \A w \in ModeSet(S, f) : RLe(v, w)

\* Integer deviations proportional to x - mean(x): with L the common
\* denominator and X = L*x, Dev[i] = (n*X[i] - sum X) / g, g their gcd.
Dev(S, f) ==
  LET L  == SetLCM(S, [i \in S |-> f[i][2]])
      X  == [i \in S |-> f[i][1] * (L \div f[i][2])]
      n  == Cardinality(S)
      T  == ISum(S, X)
      D  == [i \in S |-> n * X[i] - T]
      g  == SetGCD(S, D)
  IN  IF g = 0 THEN D ELSE [i \in S |-> D[i] \div g]

M2(S, f) == LET D == Dev(S, f) IN ISum(S, [i \in S |-> D[i] * D[i]])
M3(S, f) == LET D == Dev(S, f) IN ISum(S, [i \in S |-> D[i] * D[i] * D[i]])

\* pandas Series.skew() > 1. skew() is the adjusted Fisher-Pearson
\* coefficient sqrt(n(n-1))/(n-2) * m3/m2^1.5, NaN for n < 3 and 0 for a
\* constant series; with A = M2 and B = M3 of the scaled deviations
\* m3/m2^1.5 = sqrt(n) * B / A^1.5.
PandasSkewGt1(S, f) ==
  LET n == Cardinality(S)
      A == M2(S, f)
      B == M3(S, f)
  IN  /\ n >= 3
      /\ A > 0
      /\ B > 0
      /\ n * n * (n - 1) * B * B > (n - 2) * (n - 2) * A * A * A

\* ---------------------------------------------------------------- frames
Columns(d) == DOMAIN d.cols
Rows(d) == Range(d.idx)
Without(f, c) == [x \in (DOMAIN f) \ {c} |-> f[x]]
With(f, c, v) == [x \in (DOMAIN f) \cup {c} |-> IF x = c THEN v ELSE f[x]]

\* df[col].dropna(): the labels of the rows that hold a value in col.
Sample(d, c) == NotNull(Rows(d), d.cols[c])

\* df.drop(columns=[col])
DropColumn(d, c) ==
  [idx |-> d.idx, cols |-> Without(d.cols, c), dtype |-> Without(d.dtype, c),
   root |-> Without(d.root, c), form |-> Without(d.form, c)]

\* df[col] = series (the values f, held as dtype t)
AssignColumn(d, c, f, t) ==
  [idx |-> d.idx, cols |-> With(d.cols, c, f), dtype |-> With(d.dtype, c, t),
   root |-> With(d.root, c, Num(1)), form |-> With(d.form, c, "lin")]

\* df[mask]: the rows whose label satisfies Keep, in their order.
FilterRows(d, Keep(_)) ==
  [idx |-> SelectSeq(d.idx, Keep),
   cols |-> [c \in Columns(d) |-> [i \in {j \in Rows(d) : Keep(j)} |-> d.cols[c][i]]],
   dtype |-> d.dtype, root |-> d.root, form |-> d.form]

\* series.fillna(v); fillna(NaN) changes nothing.
FillNa(S, f, v) == [i \in S |-> IF IsNaN(f[i]) THEN v ELSE f[i]]

\* The outcome of a call: the dataset it returns, or the exception it raises
\* (df is then the local dataset at the raise, which no caller receives).
Ok(d) == [ok |-> TRUE, df |-> d]
Raise(d) == [ok |-> FALSE, df |-> d]

\* A numeric reduction (skew, quantile, a comparison with a number) raises
\* TypeError or ValueError on a column that holds strings.
HoldsStrings(d, col) == d.dtype[col] = "object" /\ Sample(d, col) # {}

\* ---------------------------------------------------------------- ColumnSchema
ColType == {"NUMERIC", "CATEGORICAL", "DATETIME", "BOOLEAN", "UNKNOWN"}
None == <<>>
\* `x or 0`: None and 0 both give 0.
OrZero(x) == IF x = None THEN 0 ELSE x[1]

\* ---------------------------------------------------------------- missing values
DropMissingPct == 50

\* mutant: the missing_pct == 0 test is lost
mv_decision_NoZeroCheck(d, stats) ==
  LET missing_pct == OrZero(stats.missing_pct)
      S == Sample(d, stats.name)
  IN  IF missing_pct > DropMissingPct THEN "drop-column"
      ELSE IF stats.type = "NUMERIC"
             THEN (IF PandasSkewGt1(S, d.cols[stats.name])
                     THEN "impute-median" ELSE "impute-mean")
      ELSE IF stats.type \in {"CATEGORICAL", "BOOLEAN"} THEN "impute-mode"
      ELSE IF stats.type = "DATETIME" THEN "impute-most-frequent-date"
      ELSE "no-action"

\* mutant: missing_pct >= 50 drops the column
mv_decision_DropAt50(d, stats) ==
  LET missing_pct == OrZero(stats.missing_pct)
      S == Sample(d, stats.name)
  IN  IF missing_pct = 0 THEN "no-action"
      ELSE IF missing_pct >= DropMissingPct THEN "drop-column"
      ELSE IF stats.type = "NUMERIC"
             THEN (IF PandasSkewGt1(S, d.cols[stats.name])
                     THEN "impute-median" ELSE "impute-mean")
      ELSE IF stats.type \in {"CATEGORICAL", "BOOLEAN"} THEN "impute-mode"
      ELSE IF stats.type = "DATETIME" THEN "impute-most-frequent-date"
      ELSE "no-action"

mv_decision(d, stats) ==
  LET missing_pct == OrZero(stats.missing_pct)
      S == Sample(d, stats.name)
  IN  IF missing_pct = 0 THEN "no-action"
      ELSE IF missing_pct > DropMissingPct THEN "drop-column"
      ELSE IF stats.type = "NUMERIC"
             THEN (IF PandasSkewGt1(S, d.cols[stats.name])
                     THEN "impute-median" ELSE "impute-mean")
      ELSE IF stats.type = "CATEGORICAL" THEN "impute-mode"
      ELSE IF stats.type = "DATETIME" THEN "impute-most-frequent-date"
      ELSE IF stats.type = "BOOLEAN" THEN "impute-mode"
      ELSE "no-action"

\* The strategies dict, in insertion order: <<column, decision>> pairs.
missing_value_rules(d, stats) ==
  LET present == SelectSeq(stats, LAMBDA s : s.name \in Columns(d))
  IN  [k \in 1..Len(present) |-> <<present[k].name, mv_decision(d, present[k])>>]

\* df[col].dropna().skew() raises on strings, and on datetime64 whatever
\* the values
mv_raises(d, stats) ==
  \E k \in 1..Len(stats) :
    /\ stats[k].name \in Columns(d)
    /\ OrZero(stats[k].missing_pct) # 0
    /\ OrZero(stats[k].missing_pct) <= DropMissingPct
    /\ stats[k].type = "NUMERIC"
    /\ \/ HoldsStrings(d, stats[k].name)
       \/ d.dtype[stats[k].name] = "datetime"

mv_apply(d, col, action) ==
  LET f == d.cols[col]
      S == Sample(d, col)
      fill(v) == Ok(AssignColumn(d, col, FillNa(Rows(d), f, v), d.dtype[col]))
  IN  IF action = "no-action" THEN Ok(d)
      ELSE IF action = "drop-column" THEN Ok(DropColumn(d, col))
      ELSE IF action = "impute-mean" THEN fill(Mean(S, f))
      ELSE IF action = "impute-median" THEN fill(Median(S, f))
      ELSE IF action \in {"impute-mode", "impute-most-frequent-date"}
             \* mode()[0] of an all-NaN column raises IndexError
             THEN (IF S = {} THEN Raise(d) ELSE fill(Mode0(S, f)))
      ELSE Ok(d)

RECURSIVE mv_loop(_, _, _)
mv_loop(r, strategies, k) ==
  IF k > Len(strategies) \/ ~r.ok THEN r
  ELSE mv_loop(mv_apply(r.df, strategies[k][1], strategies[k][2]), strategies, k + 1)

handle_missing_values(d, stats) ==
  IF mv_raises(d, stats) THEN Raise(d)
  ELSE mv_loop(Ok(d), missing_value_rules(d, stats), 1)

\* ---------------------------------------------------------------- outliers
CapRatioNum == 1
CapRatioDen == 5

Q1(S, f) == Quantile(S, f, 1, 4)
Q3(S, f) == Quantile(S, f, 3, 4)
IQR(S, f) == RSub(Q3(S, f), Q1(S, f))
\* Q1 - 1.5 * IQR and Q3 + 1.5 * IQR; NaN for an empty sample.
lower_bound(S, f) ==
  IF S = {} THEN NaN ELSE RSub(Q1(S, f), RMul(Rat(3, 2), IQR(S, f)))
upper_bound(S, f) ==
  IF S = {} THEN NaN ELSE RAdd(Q3(S, f), RMul(Rat(3, 2), IQR(S, f)))

\* ((col_data < lower_bound) | (col_data > upper_bound)).sum()
outlier_count(S, f) ==
  LET lo == lower_bound(S, f)
      hi == upper_bound(S, f)
  IN  Cardinality({i \in S : Lt(f[i], lo) \/ Lt(hi, f[i])})

\* mutant: outlier_count / len(col_data) >= 0.2 caps
out_decision_CapAt20(d, col) ==
  LET S == Sample(d, col)
      k == outlier_count(S, d.cols[col])
  IN  IF S = {} THEN "no-action"
      ELSE IF k = 0 THEN "no-action"
      ELSE IF k * CapRatioDen >= CapRatioNum * Cardinality(S) THEN "cap-at-percentiles"
      ELSE "remove-outliers"

out_decision(d, col) ==
  LET S == Sample(d, col)
      k == outlier_count(S, d.cols[col])
  IN  IF S = {} THEN "no-action"
      ELSE IF k = 0 THEN "no-action"
      ELSE IF k * CapRatioDen > CapRatioNum * Cardinality(S) THEN "cap-at-percentiles"
      ELSE "remove-outliers"

outlier_rules(d, stats) ==
  LET numeric == SelectSeq(stats, LAMBDA s : s.type = "NUMERIC" /\ s.name \in Columns(d))
  IN  [k \in 1..Len(numeric) |-> <<numeric[k].name, out_decision(d, numeric[k].name)>>]

\* col_data.quantile(0.25) raises on strings
out_raises(d, stats) ==
  \E k \in 1..Len(stats) :
    /\ stats[k].type = "NUMERIC"
    /\ stats[k].name \in Columns(d)
    /\ HoldsStrings(d, stats[k].name)

\* mutant: the upper fence is not applied
remove_outliers_LowerOnly(d, col) ==
  LET f  == d.cols[col]
      lo == lower_bound(Sample(d, col), f)
  IN  FilterRows(d, LAMBDA i : Le(lo, f[i]))

\* df[(df[col] >= lower_bound) & (df[col] <= upper_bound)]
remove_outliers(d, col) ==
  LET f  == d.cols[col]
      S  == Sample(d, col)
      lo == lower_bound(S, f)
      hi == upper_bound(S, f)
  IN  FilterRows(d, LAMBDA i : Le(lo, f[i]) /\ Le(f[i], hi))

\* mutant: only the upper cap is applied
Clip_UpperOnly(x, lo, hi) ==
  IF IsNaN(x) \/ IsNaN(lo) \/ IsNaN(hi) THEN x
  ELSE IF RLt(hi, x) THEN hi
  ELSE x

\* np.clip(x, lower_cap, upper_cap); NaN stays NaN.
Clip(x, lo, hi) ==
  IF IsNaN(x) \/ IsNaN(lo) \/ IsNaN(hi) THEN x
  ELSE IF RLt(x, lo) THEN lo
  ELSE IF RLt(hi, x) THEN hi
  ELSE x

lower_cap(S, f) == Quantile(S, f, 5, 100)
upper_cap(S, f) == Quantile(S, f, 95, 100)

cap_at_percentiles(d, col) ==
  LET f == d.cols[col]
      S == Sample(d, col)
      lo == lower_cap(S, f)
      hi == upper_cap(S, f)
      g == [i \in Rows(d) |-> Clip(f[i], lo, hi)]
      t == IF \A i \in Rows(d) : IsNaN(g[i]) \/ IsIntegral(g[i])
             THEN d.dtype[col] ELSE "float"
  IN  AssignColumn(d, col, g, t)

out_apply(d, col, action) ==
  IF action = "no-action" THEN d
  ELSE IF col \notin Columns(d) THEN d
  ELSE IF action = "remove-outliers" THEN remove_outliers(d, col)
  ELSE IF action = "cap-at-percentiles" THEN cap_at_percentiles(d, col)
  ELSE d

RECURSIVE out_loop(_, _, _)
out_loop(d, strategies, k) ==
  IF k > Len(strategies) THEN d
  ELSE out_loop(out_apply(d, strategies[k][1], strategies[k][2]), strategies, k + 1)

handle_outliers(d, stats) ==
  IF out_raises(d, stats) THEN Raise(d)
  ELSE Ok(out_loop(d, outlier_rules(d, stats), 1))

\* ---------------------------------------------------------------- encodings
OneHotMaxCardinality == 10
TargetMaxCardinality == 50

\* Column names are tuples of strings: <<"a">> is column a, <<"a", "1">> the
\* indicator column a_1 and <<"a", "year">> the date part a_year.
CatName(v) == IF IsNaN(v) THEN "nan" ELSE IF IsIntegral(v) THEN ToString(v[1]) ELSE ToString(v)
Derived(col, suffix) == Append(col, suffix)

\* mutant: cardinality < 10 instead of <= 10
enc_decision_Below10(stats) ==
  LET cardinality == OrZero(stats.unique)
  IN  IF cardinality < OneHotMaxCardinality THEN "one-hot-encode"
      ELSE IF cardinality <= TargetMaxCardinality THEN "target-encode"
      ELSE "embedding-encode"

enc_decision(stats) ==
  LET cardinality == OrZero(stats.unique)
  IN  IF cardinality <= OneHotMaxCardinality THEN "one-hot-encode"
      ELSE IF cardinality <= TargetMaxCardinality THEN "target-encode"
      ELSE "embedding-encode"

encoding_rules(d, stats) ==
  LET cat == SelectSeq(stats, LAMBDA s : s.type = "CATEGORICAL")
  IN  [k \in 1..Len(cat) |-> <<cat[k].name, enc_decision(cat[k])>>]

\* mutant: OneHotEncoder(drop="first"), the first category gets no indicator
one_hot_encode_DropFirst(d, col) ==
  LET m      == Len(d.idx)
      f      == d.cols[col]
      all    == {f[i] : i \in Rows(d)}
      cats   == all \ {CHOOSE v \in all : \A w \in all : IsNaN(w) \/ Le(v, w)}
      fresh  == (0..(m - 1)) \ Rows(d)
      extra  == SelectSeq([k \in 1..m |-> k - 1], LAMBDA i : i \in fresh)
      labels == Rows(d) \cup fresh
      rest   == DropColumn(d, col)
      names  == {Derived(col, CatName(v)) : v \in cats}
      catOf(n) == CHOOSE v \in cats : Derived(col, CatName(v)) = n
      old(c) == [i \in labels |-> IF i \in Rows(d) THEN d.cols[c][i] ELSE NaN]
      ind(n) == [i \in labels |->
                   IF i \in 0..(m - 1)
                     THEN (IF f[d.idx[i + 1]] = catOf(n) THEN Num(1) ELSE Num(0))
                     ELSE NaN]
  IN  [idx   |-> d.idx \o extra,
       cols  |-> [c \in Columns(rest) \cup names |->
                    IF c \in names THEN ind(c) ELSE old(c)],
       dtype |-> [c \in Columns(rest) \cup names |->
                    IF c \in names THEN "float"
                    ELSE IF fresh # {} /\ d.dtype[c] = "int" THEN "float"
                    ELSE d.dtype[c]],
       root  |-> [c \in Columns(rest) \cup names |->
                    IF c \in names THEN Num(1) ELSE d.root[c]],
       form  |-> [c \in Columns(rest) \cup names |->
                    IF c \in names THEN "lin" ELSE d.form[c]]]

\* pd.concat([df.drop(columns=[col]), encoded_df], axis=1): encoded_df has
\* one row per row of df, labelled 0..m-1 by position (a fresh RangeIndex);
\* concat aligns on labels (outer join): a label of only one side gets NaN
\* in the other side's columns. NaN is a category of its own.
one_hot_encode(d, col) ==
  LET m      == Len(d.idx)
      f      == d.cols[col]
      cats   == {f[i] : i \in Rows(d)}
      fresh  == (0..(m - 1)) \ Rows(d)
      extra  == SelectSeq([k \in 1..m |-> k - 1], LAMBDA i : i \in fresh)
      labels == Rows(d) \cup fresh
      rest   == DropColumn(d, col)
      names  == {Derived(col, CatName(v)) : v \in cats}
      catOf(n) == CHOOSE v \in cats : Derived(col, CatName(v)) = n
      old(c) == [i \in labels |-> IF i \in Rows(d) THEN d.cols[c][i] ELSE NaN]
      ind(n) == [i \in labels |->
                   IF i \in 0..(m - 1)
                     THEN (IF f[d.idx[i + 1]] = catOf(n) THEN Num(1) ELSE Num(0))
                     ELSE NaN]
  IN  [idx   |-> d.idx \o extra,
       cols  |-> [c \in Columns(rest) \cup names |->
                    IF c \in names THEN ind(c) ELSE old(c)],
       dtype |-> [c \in Columns(rest) \cup names |->
                    IF c \in names THEN "float"
                    ELSE IF fresh # {} /\ d.dtype[c] = "int" THEN "float"
                    ELSE d.dtype[c]],
       root  |-> [c \in Columns(rest) \cup names |->
                    IF c \in names THEN Num(1) ELSE d.root[c]],
       form  |-> [c \in Columns(rest) \cup names |->
                    IF c \in names THEN "lin" ELSE d.form[c]]]

\* category_encoders.TargetEncoder: each value becomes a statistic of the
\* target (a numeric column) over the rows of its category. The stored number is the category
\* mean of the target; form "smoothed" records that the encoder blends it
\* with the global mean by a sigmoid weight of the category size.
target_encode(d, col, target) ==
  LET f == d.cols[col]
      t == d.cols[target]
      grp(i) == {j \in Sample(d, target) : f[j] = f[i]}
      g == [i \in Rows(d) |-> Mean(grp(i), t)]
  IN  [idx |-> d.idx, cols |-> With(d.cols, col, g), dtype |-> With(d.dtype, col, "float"),
       root |-> With(d.root, col, d.root[target]), form |-> With(d.form, col, "smoothed")]

\* mutant: without a target the column is left as it is
enc_apply_NoTargetCheck(d, col, strategy, target) ==
  IF strategy = "one-hot-encode"
    THEN (IF col \notin Columns(d) \/ Len(d.idx) = 0 THEN Raise(d)
          ELSE Ok(one_hot_encode(d, col)))
  ELSE IF strategy = "target-encode"
    THEN (IF target = None \/ target[1] \notin Columns(d) THEN Ok(d)
          ELSE IF col \notin Columns(d) THEN Raise(d)
          ELSE Ok(target_encode(d, col, target[1])))
  ELSE Ok(d)

enc_apply(d, col, strategy, target) ==
  IF strategy = "one-hot-encode"
    \* df[[col]] raises KeyError for an absent column; OneHotEncoder refuses
    \* an array with no rows
    THEN (IF col \notin Columns(d) \/ Len(d.idx) = 0 THEN Raise(d)
          ELSE Ok(one_hot_encode(d, col)))
  ELSE IF strategy = "target-encode"
    THEN (IF target = None \/ target[1] \notin Columns(d) THEN Raise(d)
          ELSE IF col \notin Columns(d) THEN Raise(d)
          ELSE Ok(target_encode(d, col, target[1])))
  ELSE Ok(d)

RECURSIVE enc_loop(_, _, _, _)
enc_loop(r, strategies, k, target) ==
  IF k > Len(strategies) \/ ~r.ok THEN r
  ELSE enc_loop(enc_apply(r.df, strategies[k][1], strategies[k][2], target),
                strategies, k + 1, target)

\* Population variance (ddof = 0) of the stored values, ignoring NaN.
Variance(S, f) ==
  LET mu == Mean(S, f)
  IN  RDiv(RSum(S, [i \in S |-> RMul(RSub(f[i], mu), RSub(f[i], mu))]),
           Num(Cardinality(S)))

\* StandardScaler on one column: (x - mean) / std over the non-NaN values,
\* NaN kept; a zero std is replaced by 1. With x = v / sqrt(r) the result is
\* (v - mean(v)) / sqrt(var(v)), whatever r was.
standard_scale(d, col) ==
  LET f  == d.cols[col]
      S  == Sample(d, col)
      mu == Mean(S, f)
      v  == Variance(S, f)
      g  == [i \in Rows(d) |-> IF IsNaN(f[i]) THEN NaN ELSE RSub(f[i], mu)]
  IN  IF S = {} THEN [d EXCEPT !.dtype[col] = "float"]
      ELSE [idx |-> d.idx, cols |-> With(d.cols, col, g),
            dtype |-> With(d.dtype, col, "float"),
            root |-> With(d.root, col, IF v[1] = 0 THEN Num(1) ELSE v),
            form |-> d.form]

RECURSIVE scale_loop(_, _, _)
scale_loop(d, cs, k) ==
  IF k > Len(cs) THEN d ELSE scale_loop(standard_scale(d, cs[k].name), cs, k + 1)

\* mutant: the numeric columns are not scaled
scale_numeric_Skip(d, stats) ==
  Ok(d)

\* df[numeric_cols] = StandardScaler().fit_transform(df[numeric_cols]);
\* StandardScaler refuses an array with no rows and one that holds strings.
scale_numeric(d, stats) ==
  LET numeric_cols == SelectSeq(stats, LAMBDA s : s.type = "NUMERIC" /\ s.name \in Columns(d))
  IN  IF Len(numeric_cols) = 0 THEN Ok(d)
      ELSE IF Len(d.idx) = 0 THEN Raise(d)
      ELSE IF \E k \in 1..Len(numeric_cols) : HoldsStrings(d, numeric_cols[k].name) THEN Raise(d)
      ELSE Ok(scale_loop(d, numeric_cols, 1))

encode_and_scale(d, stats, target) ==
  LET r == enc_loop(Ok(d), encoding_rules(d, stats), 1, target)
  IN  IF r.ok THEN scale_numeric(r.df, stats) ELSE r

\* ---------------------------------------------------------------- transformations
\* Column names that contain one of the keywords of is_age_like
\* ("age", "yrs", "years", "yr", "age_in_years") or of is_money_like
\* ("price", "cost", "revenue", "income", "amount", "salary").
AgeNamed == {"age"}
MoneyNamed == {"price"}

IdMinUnique == 50
CountMaxUnique == 20
AgeMax == 120
PctMax == 100
RangeLimit == 1000

\* The held value is v / sqrt(r), r > 0: it is >= 0 iff v >= 0, and it is
\* <= H (H >= 0) iff v <= 0 or v*v/r <= H*H.
HeldLeInt(v, r, H) == v[1] <= 0 \/ ~RGtInt(RDiv(RMul(v, v), r), H * H)
\* series.between(0, H), at one value
Between0(v, r, H) == v[1] >= 0 /\ HeldLeInt(v, r, H)

is_integer_dtype(d, col) == d.dtype[col] = "int"
is_numeric_dtype(d, col) == d.dtype[col] \in {"int", "float"}

is_id_like(d, col) ==
  LET S == Sample(d, col)
      u == NUnique(S, d.cols[col])
  IN  /\ is_integer_dtype(d, col)
      /\ u * 100 > 98 * Cardinality(S)
      /\ u > IdMinUnique

is_count_like(d, col) ==
  is_integer_dtype(d, col) /\ NUnique(Sample(d, col), d.cols[col]) < CountMaxUnique

is_age_like(d, col) ==
  LET S == Sample(d, col)
      inside == {i \in S : Between0(d.cols[col][i], d.root[col], AgeMax)}
  IN  \/ col[1] \in AgeNamed
      \/ /\ is_numeric_dtype(d, col)
         /\ Cardinality(inside) * 10 > 8 * Cardinality(S)

is_percentage_like(d, col) ==
  LET S == Sample(d, col)
  IN  \/ \A i \in S : Between0(d.cols[col][i], d.root[col], 1)
      \/ \A i \in S : Between0(d.cols[col][i], d.root[col], PctMax)

is_money_like(col) == col[1] \in MoneyNamed

all_positive(d, col) == \A i \in Sample(d, col) : d.cols[col][i][1] > 0

\* abs(scipy.stats.skew(col_data)) > 1: the biased coefficient m3/m2^1.5,
\* whose square is n*B*B/(A*A*A) for the scaled deviations.
ScipyAbsSkewGt1(S, f) ==
  LET n == Cardinality(S)
      A == M2(S, f)
      B == M3(S, f)
  IN  A > 0 /\ n * B * B > A * A * A

\* abs(col_skew) > 1 and (col_data > 0).all()
skewed_positive(d, col) ==
  all_positive(d, col) /\ ScipyAbsSkewGt1(Sample(d, col), d.cols[col])

\* col_data.max() - col_data.min() > 1000
wide_range(d, col) ==
  LET S  == Sample(d, col)
      f  == d.cols[col]
      w  == RSub(Kth(S, f, Cardinality(S) - 1), Kth(S, f, 0))
  IN  RGtInt(RDiv(RMul(w, w), d.root[col]), RangeLimit * RangeLimit)

tr_decision_AgeFirst(d, stats) ==
  LET col == stats.name
      S   == Sample(d, col)
      cardinality == IF OrZero(stats.unique) # 0 THEN OrZero(stats.unique)
                     ELSE NUnique(S, d.cols[col])
  IN  IF S = {} THEN "drop (empty column)"
      ELSE IF NUnique(S, d.cols[col]) = 1 THEN "drop (constant feature)"
      ELSE IF stats.type = "NUMERIC" THEN
             IF is_age_like(d, col) THEN "no-transform (age-like)"
             ELSE IF is_id_like(d, col) THEN "drop (identifier-like)"
             ELSE IF is_count_like(d, col) THEN "no-transform (count-like)"
             ELSE IF is_percentage_like(d, col) THEN "no-transform (percentage/ratio)"
             ELSE IF is_money_like(col) THEN
                    (IF skewed_positive(d, col) THEN "log-transform" ELSE "standard-scaling")
             ELSE IF skewed_positive(d, col) THEN "log-transform"
             ELSE IF wide_range(d, col) THEN "standard-scaling"
             ELSE "min-max-scaling"
      ELSE IF stats.type = "CATEGORICAL" THEN
             IF cardinality <= OneHotMaxCardinality THEN "one-hot-encode"
             ELSE IF cardinality <= TargetMaxCardinality THEN "target/frequency-encode"
             ELSE "embedding-encode"
      ELSE IF stats.type = "DATETIME"
             THEN "extract date parts (year, month, day, weekday, hour)"
      ELSE IF stats.type = "BOOLEAN" THEN "convert to int (0/1)"
      ELSE "no-action"

\* mutant: a BOOLEAN column is left as it is
tr_decision_BoolUntouched(d, stats) ==
  LET col == stats.name
      S   == Sample(d, col)
      cardinality == IF OrZero(stats.unique) # 0 THEN OrZero(stats.unique)
                     ELSE NUnique(S, d.cols[col])
  IN  IF S = {} THEN "drop (empty column)"
      ELSE IF NUnique(S, d.cols[col]) = 1 THEN "drop (constant feature)"
      ELSE IF stats.type = "NUMERIC" THEN
             IF is_id_like(d, col) THEN "drop (identifier-like)"
             ELSE IF is_count_like(d, col) THEN "no-transform (count-like)"
             ELSE IF is_age_like(d, col) THEN "no-transform (age-like)"
             ELSE IF is_percentage_like(d, col) THEN "no-transform (percentage/ratio)"
             ELSE IF is_money_like(col) THEN
                    (IF skewed_positive(d, col) THEN "log-transform" ELSE "standard-scaling")
             ELSE IF skewed_positive(d, col) THEN "log-transform"
             ELSE IF wide_range(d, col) THEN "standard-scaling"
             ELSE "min-max-scaling"
      ELSE IF stats.type = "CATEGORICAL" THEN
             IF cardinality <= OneHotMaxCardinality THEN "one-hot-encode"
             ELSE IF cardinality <= TargetMaxCardinality THEN "target/frequency-encode"
             ELSE "embedding-encode"
      ELSE IF stats.type = "DATETIME"
             THEN "extract date parts (year, month, day, weekday, hour)"
      ELSE IF stats.type = "BOOLEAN" THEN "no-action"
      ELSE "no-action"

tr_decision(d, stats) ==
  LET col == stats.name
      S   == Sample(d, col)
      cardinality == IF OrZero(stats.unique) # 0 THEN OrZero(stats.unique)
                     ELSE NUnique(S, d.cols[col])
  IN  IF S = {} THEN "drop (empty column)"
      ELSE IF NUnique(S, d.cols[col]) = 1 THEN "drop (constant feature)"
      ELSE IF stats.type = "NUMERIC" THEN
             IF is_id_like(d, col) THEN "drop (identifier-like)"
             ELSE IF is_count_like(d, col) THEN "no-transform (count-like)"
             ELSE IF is_age_like(d, col) THEN "no-transform (age-like)"
             ELSE IF is_percentage_like(d, col) THEN "no-transform (percentage/ratio)"
             ELSE IF is_money_like(col) THEN
                    (IF skewed_positive(d, col) THEN "log-transform" ELSE "standard-scaling")
             ELSE IF skewed_positive(d, col) THEN "log-transform"
             ELSE IF wide_range(d, col) THEN "standard-scaling"
             ELSE "min-max-scaling"
      ELSE IF stats.type = "CATEGORICAL" THEN
             IF cardinality <= OneHotMaxCardinality THEN "one-hot-encode"
             ELSE IF cardinality <= TargetMaxCardinality THEN "target/frequency-encode"
             ELSE "embedding-encode"
      ELSE IF stats.type = "DATETIME"
             THEN "extract date parts (year, month, day, weekday, hour)"
      ELSE IF stats.type = "BOOLEAN" THEN "convert to int (0/1)"
      ELSE "no-action"

transformation_rules(d, stats) ==
  LET present == SelectSeq(stats, LAMBDA s : s.name \in Columns(d))
  IN  [k \in 1..Len(present) |-> <<present[k].name, tr_decision(d, present[k])>>]

\* A NUMERIC column that is neither empty nor constant and has no numeric
\* dtype falls through is_id_like, is_count_like and (unless its name says
\* age) is_age_like to is_percentage_like, whose series.between(0, 1)
\* raises on strings and on datetime64.
tr_raises(d, stats) ==
  \E k \in 1..Len(stats) :
    LET col == stats[k].name
    IN  /\ col \in Columns(d)
        /\ stats[k].type = "NUMERIC"
        /\ Sample(d, col) # {}
        /\ NUnique(Sample(d, col), d.cols[col]) # 1
        /\ ~is_numeric_dtype(d, col)
        /\ col[1] \notin AgeNamed

\* MinMaxScaler on one column: (x - min) / (max - min); a zero range is
\* replaced by 1. The factor 1/sqrt(r) cancels.
min_max_scale(d, col) ==
  LET f  == d.cols[col]
      S  == Sample(d, col)
      lo == Kth(S, f, 0)
      hi == Kth(S, f, Cardinality(S) - 1)
      g  == [i \in Rows(d) |->
               IF IsNaN(f[i]) THEN NaN
               ELSE IF lo = hi THEN Num(0)
               ELSE RDiv(RSub(f[i], lo), RSub(hi, lo))]
  IN  IF S = {} THEN [d EXCEPT !.dtype[col] = "float"]
      ELSE AssignColumn(d, col, g, "float")

\* int(x): truncation toward zero
Trunc(x) == IF x[1] >= 0 THEN Num(x[1] \div x[2]) ELSE Num(-((-x[1]) \div x[2]))

\* A datetime value v is the v-th hour after 2000-01-01 00:00, a Saturday
\* (weekday 5); the model's values stay inside January 2000.
DatePart(part, v) ==
  IF IsNaN(v) THEN NaN
  ELSE IF part = "year" THEN Num(2000)
  ELSE IF part = "month" THEN Num(1)
  ELSE IF part = "day" THEN Num(1 + (v[1] \div 24))
  ELSE IF part = "weekday" THEN Num((5 + (v[1] \div 24)) % 7)
  ELSE Num(v[1] % 24)
DateParts == <<"year", "month", "day", "weekday", "hour">>

RECURSIVE extract_date_parts(_, _, _)
extract_date_parts(d, col, k) ==
  IF k > Len(DateParts) THEN d
  ELSE extract_date_parts(
         AssignColumn(d, Derived(col, DateParts[k]),
                      [i \in Rows(d) |-> DatePart(DateParts[k], d.cols[col][i])],
                      IF Sample(d, col) = Rows(d) THEN "int" ELSE "float"),
         col, k + 1)

StartsWith(action, prefix) ==
  \/ prefix = "drop" /\ action \in {"drop (empty column)", "drop (constant feature)",
                                    "drop (identifier-like)"}
  \/ prefix = "no-" /\ action \in {"no-transform (count-like)", "no-transform (age-like)",
                                   "no-transform (percentage/ratio)", "no-action"}

tr_apply(d, col, action) ==
  IF col \notin Columns(d) THEN Ok(d)
  ELSE IF StartsWith(action, "drop") THEN Ok(DropColumn(d, col))
  ELSE IF StartsWith(action, "no-") THEN Ok(d)
  ELSE IF action = "log-transform" THEN
         \* (df[col] > 0).all(): False as soon as a value is NaN
         IF \A i \in Rows(d) : d.cols[col][i][1] > 0
           THEN Ok([d EXCEPT !.form[col] = "log1p", !.dtype[col] = "float"])
           ELSE Ok(d)
  ELSE IF action = "standard-scaling" THEN Ok(standard_scale(d, col))
  ELSE IF action = "min-max-scaling" THEN Ok(min_max_scale(d, col))
  ELSE IF action = "convert to int (0/1)" THEN
         \* astype(int) raises on NaN
         IF Sample(d, col) # Rows(d) THEN Raise(d)
         ELSE Ok(AssignColumn(d, col, [i \in Rows(d) |-> Trunc(d.cols[col][i])], "int"))
  ELSE IF action = "extract date parts (year, month, day, weekday, hour)" THEN
         IF d.dtype[col] = "datetime" THEN Ok(extract_date_parts(d, col, 1)) ELSE Ok(d)
  ELSE Ok(d)

RECURSIVE tr_loop(_, _, _)
tr_loop(r, decisions, k) ==
  IF k > Len(decisions) \/ ~r.ok THEN r
  ELSE tr_loop(tr_apply(r.df, decisions[k][1], decisions[k][2]), decisions, k + 1)

apply_transformations(d, stats) ==
  IF tr_raises(d, stats) THEN Raise(d)
  ELSE tr_loop(Ok(d), transformation_rules(d, stats), 1)

\* ---------------------------------------------------------------- the caller's object
\* What a stage function does to the DataFrame object it is given:
\* df[col] = ... writes into the object the name df is bound to, while
\* df = df.drop(...), df = df[mask] and df = pd.concat(...) bind df to a new
\* object and leave the old one as it is. obj is the given object when the
\* call ends, same tells whether df is still bound to it then.
Held(d, same) == [obj |-> d, same |-> same]

RECURSIVE mv_inplace(_, _, _)
mv_inplace(d, strategies, k) ==
  IF k > Len(strategies) THEN Held(d, TRUE)
  ELSE IF strategies[k][2] = "drop-column" THEN Held(d, FALSE)
  ELSE LET r == mv_apply(d, strategies[k][1], strategies[k][2])
       IN  IF r.ok THEN mv_inplace(r.df, strategies, k + 1) ELSE Held(d, TRUE)

RECURSIVE out_inplace(_, _, _)
out_inplace(d, strategies, k) ==
  IF k > Len(strategies) THEN Held(d, TRUE)
  ELSE IF strategies[k][2] = "remove-outliers" /\ strategies[k][1] \in Columns(d)
    THEN Held(d, FALSE)
  ELSE out_inplace(out_apply(d, strategies[k][1], strategies[k][2]), strategies, k + 1)

RECURSIVE enc_inplace(_, _, _, _)
enc_inplace(d, strategies, k, target) ==
  IF k > Len(strategies) THEN Held(d, TRUE)
  ELSE LET r == enc_apply(d, strategies[k][1], strategies[k][2], target)
       IN  IF ~r.ok THEN Held(d, TRUE)
           ELSE IF strategies[k][2] = "one-hot-encode" THEN Held(d, FALSE)
           ELSE enc_inplace(r.df, strategies, k + 1, target)

RECURSIVE tr_inplace(_, _, _)
tr_inplace(d, decisions, k) ==
  IF k > Len(decisions) THEN Held(d, TRUE)
  ELSE LET col == decisions[k][1]
           r   == tr_apply(d, col, decisions[k][2])
       IN  IF ~r.ok THEN Held(d, TRUE)
           ELSE IF col \in Columns(d) /\ StartsWith(decisions[k][2], "drop") THEN Held(d, FALSE)
           ELSE tr_inplace(r.df, decisions, k + 1)

InPlace(stage, d, stats, target) ==
  CASE stage = "missing_values" ->
         IF mv_raises(d, stats) THEN Held(d, TRUE)
         ELSE mv_inplace(d, missing_value_rules(d, stats), 1)
    [] stage = "outliers" ->
         IF out_raises(d, stats) THEN Held(d, TRUE)
         ELSE out_inplace(d, outlier_rules(d, stats), 1)
    [] stage = "encoding" ->
         LET h == enc_inplace(d, encoding_rules(d, stats), 1, target)
             r == enc_loop(Ok(d), encoding_rules(d, stats), 1, target)
             \* df[numeric_cols] = scaler.fit_transform(df[numeric_cols])
             s == scale_numeric(h.obj, stats)
         IN  IF h.same /\ r.ok /\ s.ok THEN Held(s.df, TRUE) ELSE h
    [] stage = "transformations" ->
         IF tr_raises(d, stats) THEN Held(d, TRUE)
         ELSE tr_inplace(d, transformation_rules(d, stats), 1)

\* ---------------------------------------------------------------- run_preprocessing_rules
\* The outcome of a rule call: its decisions, or the exception it raises.
\* An exception records its kind, the family its message names and its
\* cause (raise ... from e).
Decisions(value) == [ok |-> TRUE, value |-> value]
RuleProcessingError(family, cause) ==
  [ok |-> FALSE, value |-> [kind |-> "RuleProcessingError", family |-> family, cause |-> cause]]

\* Each rule function wraps its loop in try/except: any exception becomes
\* RuleProcessingError("Failed to process <family> rules: ...") from e.
try_transformation_rules(d, stats) ==
  IF tr_raises(d, stats) THEN RuleProcessingError("transformation", "TypeError")
  ELSE Decisions(transformation_rules(d, stats))
try_missing_value_rules(d, stats) ==
  IF mv_raises(d, stats) THEN RuleProcessingError("missing value", "TypeError")
  ELSE Decisions(missing_value_rules(d, stats))
try_outlier_rules(d, stats) ==
  IF out_raises(d, stats) THEN RuleProcessingError("outlier", "TypeError")
  ELSE Decisions(outlier_rules(d, stats))
try_encoding_rules(d, stats) == Decisions(encoding_rules(d, stats))

Families == <<"transformations", "missing_values", "outliers", "encodings">>

\* The dict literal of run_preprocessing_rules evaluates the four rule
\* functions in order, each on the same df and column_stats.
family_rules(family, d, stats) ==
  CASE family = "transformations" -> try_transformation_rules(d, stats)
    [] family = "missing_values" -> try_missing_value_rules(d, stats)
    [] family = "outliers" -> try_outlier_rules(d, stats)
    [] family = "encodings" -> try_encoding_rules(d, stats)

\* the result of each family, in call order; the set binding evaluates the
\* four calls once
FirstFailed(results) ==
  CHOOSE f \in DOMAIN results : ~results[f].ok /\ \A g \in 1..(f - 1) : results[g].ok
FamilyIndex(family) == CHOOSE k \in DOMAIN Families : Families[k] = family

\* mutant: the failure of a rule function is dropped and the family left out
\* of the result
run_preprocessing_rules_SkipFailed(d, stats) ==
  CHOOSE out \in
    {Decisions([f \in {Families[k] : k \in {j \in DOMAIN Families : results[j].ok}} |->
                  results[FamilyIndex(f)].value]) :
     results \in {[f \in DOMAIN Families |-> family_rules(Families[f], d, stats)]}} : TRUE

\* mutant: the encodings are left out of the result
run_preprocessing_rules_NoEncodings(d, stats) ==
  CHOOSE out \in
    {IF \A f \in DOMAIN Families : results[f].ok
       THEN Decisions([f \in {Families[k] : k \in 1..3} |-> results[FamilyIndex(f)].value])
       ELSE RuleProcessingError("engine", results[FirstFailed(results)].value) :
     results \in {[f \in DOMAIN Families |-> family_rules(Families[f], d, stats)]}} : TRUE

run_preprocessing_rules(d, stats) ==
  CHOOSE out \in
    {IF \A f \in DOMAIN Families : results[f].ok
       THEN Decisions([f \in {Families[k] : k \in DOMAIN Families} |->
                         results[FamilyIndex(f)].value])
       ELSE RuleProcessingError("engine", results[FirstFailed(results)].value) :
     results \in {[f \in DOMAIN Families |-> family_rules(Families[f], d, stats)]}} : TRUE

\* ---------------------------------------------------------------- inputs
Rows0 == 0..(NRows - 1)
Values == {NaN} \cup {Num(v) : v \in 0..MaxVal}
\* every series up to the order of its rows: NaN first, then ascending
SortedSeries ==
  LET code(v) == IF v = -1 THEN NaN ELSE Num(v)
      sorted == {s \in [Rows0 -> -1..MaxVal] :
                   \A i \in Rows0 : i + 1 \in Rows0 => s[i] <= s[i + 1]}
  IN  {[i \in Rows0 |-> code(s[i])] : s \in sorted}
\* one row is missing or holds the largest value, the others hold 0
OddSeries ==
  {[i \in Rows0 |-> IF i = k THEN v ELSE Num(0)] : k \in Rows0, v \in {NaN, Num(MaxVal)}}
\* two fixed columns: one with a missing value, one without
FewSeries == {[i \in Rows0 |-> IF i = 0 THEN NaN ELSE IF i = 1 THEN Num(1) ELSE Num(0)],
              [i \in Rows0 |-> IF i = 0 THEN Num(1) ELSE Num(0)]}

ColX == <<"x">>
ColP == <<"price">>

MissingPcts == {None, <<0>>, <<50>>, <<60>>}
Uniques == {None, <<10>>, <<11>>, <<50>>, <<51>>}
Schemas(name, types, pcts) ==
  {[name |-> name, type |-> t, missing_pct |-> m, unique |-> u] :
     t \in types, m \in pcts, u \in Uniques}
\* Only the rules for CATEGORICAL columns read `unique`.
ColumnSchema(name, types, pcts) ==
  {s \in Schemas(name, types, pcts) : s.type # "CATEGORICAL" => s.unique = None}

TypeOf(stats, c) ==
  IF \E k \in 1..Len(stats) : stats[k].name = c
    THEN stats[CHOOSE k \in 1..Len(stats) : stats[k].name = c].type
    ELSE "UNKNOWN"

\* The DataFrame the parser hands over: rows labelled 0..n-1; a column with
\* a missing value is held as float, a DATETIME column as datetime64.
Frame(data, stats) ==
  [idx   |-> [k \in 1..NRows |-> k - 1],
   cols  |-> data,
   dtype |-> [c \in DOMAIN data |->
                IF TypeOf(stats, c) = "DATETIME" THEN "datetime"
                ELSE IF \E i \in Rows0 : IsNaN(data[c][i]) THEN "float"
                ELSE "int"],
   root  |-> [c \in DOMAIN data |-> Num(1)],
   form  |-> [c \in DOMAIN data |-> "lin"]]

Input(data, stats, save) == [df |-> Frame(data, stats), stats |-> stats, save |-> save]

\* ---------------------------------------------------------------- PreprocessingPipeline.run
NoDataset == <<>>

\* no EDAEngine takes part
NoEngine ==
  /\ use_llm_summary = FALSE
  /\ profile = None
  /\ model = None
  /\ summary = None
  /\ feature_importances = None
  /\ llm_calls = <<>>
  /\ result = None

\* run is entered with the caller's dataset and statistics
Start(in) ==
  /\ df = in.df
  /\ column_stats = in.stats
  /\ save_output = in.save
  /\ pc = "missing_values"
  /\ hist = <<>>
  /\ csv_written = FALSE
  /\ returned = NoDataset
  /\ error = "none"
  /\ target_column = None
  /\ task_type = None
  /\ rules = <<>>
  /\ plots = <<>>
  /\ caller_df = in.df
  /\ aliased = TRUE
  /\ NoEngine

\* one column of every type and statistics, every series (up to row order)
SingleInputs ==
  \E x \in SortedSeries, sx \in ColumnSchema(ColX, ColType, MissingPcts), save \in BOOLEAN :
    Start(Input([c \in {ColX} |-> x], <<sx>>, save))

\* two NUMERIC columns: every series next to one with an odd row
PairInputs ==
  \E x \in SortedSeries, p \in OddSeries,
     sx \in ColumnSchema(ColX, {"NUMERIC"}, {<<0>>, <<50>>}),
     sp \in ColumnSchema(ColP, {"NUMERIC"}, {<<0>>}) :
    Start(Input([c \in {ColX, ColP} |-> IF c = ColX THEN x ELSE p], <<sx, sp>>, TRUE))

\* two columns of every type and statistics, the second one possibly absent
\* from the dataset
TypedInputs ==
  \E x \in FewSeries, p \in FewSeries, cs \in {{ColX}, {ColX, ColP}},
     sx \in ColumnSchema(ColX, ColType, MissingPcts),
     sp \in ColumnSchema(ColP, ColType, MissingPcts) :
    Start(Input([c \in cs |-> IF c = ColX THEN x ELSE p], <<sx, sp>>, TRUE))

\* one NUMERIC column with one row more: a missing value in one row, the
\* largest value in another, 0 in the rest, so that one outlier in five
\* values stays within the share that remove-outliers allows
LongRows == 0..NRows
LongSeries ==
  {[i \in LongRows |-> IF i = k THEN NaN ELSE IF i = j THEN Num(MaxVal) ELSE Num(0)] :
     k \in LongRows, j \in LongRows}
LongFrame(x) ==
  [idx   |-> [k \in 1..(NRows + 1) |-> k - 1],
   cols  |-> [c \in {ColX} |-> x],
   dtype |-> [c \in {ColX} |-> "float"],
   root  |-> [c \in {ColX} |-> Num(1)],
   form  |-> [c \in {ColX} |-> "lin"]]
LongInputs ==
  \E x \in LongSeries, sx \in ColumnSchema(ColX, {"NUMERIC"}, {None, <<50>>}) :
    Start([df |-> LongFrame(x), stats |-> <<sx>>, save |-> TRUE])

Init == SingleInputs \/ PairInputs \/ TypedInputs \/ LongInputs

\* mutant: the exception of a stage is swallowed and run goes on
Stage_SwallowError(name, res, next) ==
  /\ pc = name
  /\ hist' = Append(hist, [stage |-> name, input |-> df, ok |-> res.ok, output |-> res.df])
  /\ df' = res.df
  /\ pc' = next
  /\ \E h \in {InPlace(name, df, column_stats, None)} :
       /\ caller_df' = IF aliased THEN h.obj ELSE caller_df
       /\ aliased' = (aliased /\ h.same)
  /\ UNCHANGED <<column_stats, save_output, csv_written, returned, error, call, engine>>

\* One stage of run: df = stage(df, column_stats). An exception leaves the
\* try block for the except clause, which raises PreprocessingError.
Stage(name, res, next) ==
  /\ pc = name
  /\ hist' = Append(hist, [stage |-> name, input |-> df, ok |-> res.ok, output |-> res.df])
  /\ df' = res.df
  /\ pc' = IF res.ok THEN next ELSE "failed"
  /\ error' = IF res.ok THEN error ELSE "PreprocessingError"
  /\ \E h \in {InPlace(name, df, column_stats, None)} :
       /\ caller_df' = IF aliased THEN h.obj ELSE caller_df
       /\ aliased' = (aliased /\ h.same)
  /\ UNCHANGED <<column_stats, save_output, csv_written, returned, call, engine>>

\* mutant: the outlier stage is left out
MissingValues_SkipOutliers ==
  Stage("missing_values", handle_missing_values(df, column_stats), "encoding")

MissingValues ==
  Stage("missing_values", handle_missing_values(df, column_stats), "outliers")
Outliers ==
  Stage("outliers", handle_outliers(df, column_stats), "encoding")
\* mutant: the encoding stage is given the column price as target
Encoding_WithTarget ==
  Stage("encoding", encode_and_scale(df, column_stats, <<ColP>>), "transformations")
Encoding ==
  Stage("encoding", encode_and_scale(df, column_stats, None), "transformations")
Transformations ==
  Stage("transformations", apply_transformations(df, column_stats), "save")

\* if save_output: df.to_csv(...); return df
Finish ==
  /\ pc = "save"
  /\ csv_written' = save_output
  /\ returned' = <<df>>
  /\ pc' = "done"
  /\ UNCHANGED <<df, column_stats, save_output, hist, error, call, caller, engine>>

Next == MissingValues \/ Outliers \/ Encoding \/ Transformations \/ Finish

Spec == Init /\ [][Next]_vars

\* ---------------------------------------------------------------- direct calls
\* The rule functions and encode_and_scale called on their own, as the API
\* and the tests do: one call on the caller's dataset and statistics.
CallStart(in, target) ==
  /\ df = in.df
  /\ column_stats = in.stats
  /\ save_output = FALSE
  /\ pc = "call"
  /\ hist = <<>>
  /\ csv_written = FALSE
  /\ returned = NoDataset
  /\ error = "none"
  /\ target_column = target
  /\ task_type = None
  /\ rules = <<>>
  /\ plots = <<>>
  /\ caller_df = in.df
  /\ aliased = TRUE
  /\ NoEngine

ColY == <<"y">>
\* no target, a column of the dataset, the encoded column itself, a name
\* that is no column
Targets == {None, <<ColP>>, <<ColX>>, <<ColY>>}

\* a CATEGORICAL column of every cardinality next to a column of every type,
\* with every target
TargetInputs ==
  \E x \in OddSeries, p \in FewSeries, cs \in {{ColX}, {ColX, ColP}},
     sx \in ColumnSchema(ColX, {"CATEGORICAL"}, {<<0>>}),
     sp \in ColumnSchema(ColP, ColType, {<<0>>}),
     target \in Targets :
    CallStart(Input([c \in cs |-> IF c = ColX THEN x ELSE p], <<sx, sp>>, FALSE), target)

ColA == <<"age">>
Scales == {1, 100, 1000}
Scaled(x, scale) == [i \in DOMAIN x |-> IF IsNaN(x[i]) THEN NaN ELSE Num(x[i][1] * scale)]
\* the dataset with the dtype of a column chosen by the caller's data: a
\* column of whole numbers read as float64, a column of strings
FrameAs(data, stats, dtype) ==
  [Frame(data, stats) EXCEPT
     !.dtype = [c \in DOMAIN data |-> IF dtype = "inferred" THEN @[c] ELSE dtype]]

\* one column of every name, type, dtype and magnitude, every series (up to
\* row order)
RuleInputs ==
  \E x \in SortedSeries, scale \in Scales, name \in {ColX, ColP, ColA},
     dtype \in {"inferred", "float", "object"}, t \in ColType, m \in {<<0>>, <<50>>} :
    LET sx == [name |-> name, type |-> t, missing_pct |-> m, unique |-> None]
    IN  CallStart([df |-> FrameAs([c \in {name} |-> Scaled(x, scale)], <<sx>>, dtype),
                   stats |-> <<sx>>], None)

\* a column of distinct whole numbers, long enough to look like an
\* identifier
IdRows == IdMinUnique + 1
IdFrame(name) ==
  [idx   |-> [k \in 1..IdRows |-> k - 1],
   cols  |-> [c \in {name} |-> [i \in 0..(IdRows - 1) |-> Num(i)]],
   dtype |-> [c \in {name} |-> "int"],
   root  |-> [c \in {name} |-> Num(1)],
   form  |-> [c \in {name} |-> "lin"]]
IdInputs ==
  \E name \in {ColX, ColP, ColA}, t \in ColType :
    CallStart([df |-> IdFrame(name),
               stats |-> <<[name |-> name, type |-> t, missing_pct |-> <<0>>, unique |-> None]>>],
              None)

CallInit == TargetInputs \/ RuleInputs \/ IdInputs

\* the call returns its value or raises its exception
Return(name, res, exception) ==
  /\ pc = "call"
  /\ hist' = Append(hist, [stage |-> name, input |-> df, ok |-> res.ok, output |-> res.df])
  /\ pc' = IF res.ok THEN "returned" ELSE "raised"
  /\ returned' = IF res.ok THEN <<res.df>> ELSE NoDataset
  /\ error' = IF res.ok THEN error ELSE exception
  /\ \E h \in {InPlace("encoding", df, column_stats, target_column)} :
       /\ caller_df' = h.obj
       /\ aliased' = h.same
  /\ UNCHANGED <<df, column_stats, save_output, csv_written, call, engine>>

EncodeAndScale ==
  \E res \in {encode_and_scale(df, column_stats, target_column)} :
    Return("encode_and_scale", res, "PreprocessingError")

\* results = run_preprocessing_rules(df, column_stats)
RunPreprocessingRules ==
  \E res \in {run_preprocessing_rules(df, column_stats)} :
      /\ pc = "call"
      /\ hist' = Append(hist, [stage |-> "run_preprocessing_rules", input |-> df,
                                ok |-> res.ok, output |-> res.value])
      /\ pc' = IF res.ok THEN "returned" ELSE "raised"
      /\ error' = IF res.ok THEN error ELSE res.value.kind
      /\ UNCHANGED <<df, column_stats, save_output, csv_written, returned, call, caller, engine>>

CallNext == EncodeAndScale \/ RunPreprocessingRules

CallSpec == CallInit /\ [][CallNext]_vars

\* ---------------------------------------------------------------- visualization rules
\* {"chart": ..., "level": VisualizationLevel....}
Chart(chart, level) == [chart |-> chart, level |-> level]

\* abs(df[col].dropna().skew()) > 1; skew() is NaN below three values and
\* for no sample, and no comparison with NaN holds
PandasAbsSkewGt1(S, f) ==
  LET n == Cardinality(S)
      D == Dev(S, f)
      A == ISum(S, [i \in S |-> D[i] * D[i]])
      B == ISum(S, [i \in S |-> D[i] * D[i] * D[i]])
  IN  /\ n >= 3
      /\ A > 0
      /\ n * n * (n - 1) * B * B > (n - 2) * (n - 2) * A * A * A

\* The plan is a dict in insertion order: <<key, chart list>> pairs.
\* visualizations[key] = charts replaces the list of a key already there,
\* at its place, and adds a new key at the end.
Put(plan, key, charts) ==
  IF \E k \in 1..Len(plan) : plan[k][1] = key
    THEN [k \in 1..Len(plan) |-> IF plan[k][1] = key THEN <<key, charts>> ELSE plan[k]]
    ELSE Append(plan, <<key, charts>>)
RECURSIVE PutAll(_, _)
PutAll(plan, items) ==
  IF items = <<>> THEN plan
  ELSE PutAll(Put(plan, Head(items)[1], Head(items)[2]), Tail(items))

Keys(plan) == {plan[k][1] : k \in 1..Len(plan)}
ChartsOf(plan, key) == plan[CHOOSE k \in 1..Len(plan) : plan[k][1] = key][2]

\* f"{a}_vs_{b}": the names joined around the separator
Vs == "_vs_"
PairKey(a, b) == a \o <<Vs>> \o b

\* mutant: the log-scale histogram is planned for a right skew only
univariate_charts_RightSkew(d, s) ==
  IF s.type = "NUMERIC" THEN
       <<Chart("histogram", "BASIC"), Chart("histogram_kde", "DIAGNOSTIC")>>
       \o (IF PandasSkewGt1(Sample(d, s.name), d.cols[s.name])
             THEN <<Chart("histogram_log_scale", "ADVANCED")>> ELSE <<>>)
       \o <<Chart("boxplot", "BASIC")>>
  ELSE IF s.type = "CATEGORICAL" THEN
       <<Chart("barplot", "BASIC"), Chart("pareto_chart", "DIAGNOSTIC"),
         Chart("proportion_chart", "ADVANCED")>>
  ELSE IF s.type = "DATETIME" THEN
       <<Chart("lineplot", "BASIC"), Chart("seasonal_decompose", "DIAGNOSTIC"),
         Chart("rolling_avg_plot", "ADVANCED")>>
  ELSE IF s.type = "BOOLEAN" THEN
       <<Chart("barplot", "BASIC"), Chart("class_balance_plot", "DIAGNOSTIC")>>
  ELSE <<>>

\* the univariate chart list of one column, by its type
univariate_charts(d, s) ==
  IF s.type = "NUMERIC" THEN
       <<Chart("histogram", "BASIC"), Chart("histogram_kde", "DIAGNOSTIC")>>
       \o (IF PandasAbsSkewGt1(Sample(d, s.name), d.cols[s.name])
             THEN <<Chart("histogram_log_scale", "ADVANCED")>> ELSE <<>>)
       \o <<Chart("boxplot", "BASIC")>>
  ELSE IF s.type = "CATEGORICAL" THEN
       <<Chart("barplot", "BASIC"), Chart("pareto_chart", "DIAGNOSTIC"),
         Chart("proportion_chart", "ADVANCED")>>
  ELSE IF s.type = "DATETIME" THEN
       <<Chart("lineplot", "BASIC"), Chart("seasonal_decompose", "DIAGNOSTIC"),
         Chart("rolling_avg_plot", "ADVANCED")>>
  ELSE IF s.type = "BOOLEAN" THEN
       <<Chart("barplot", "BASIC"), Chart("class_balance_plot", "DIAGNOSTIC")>>
  ELSE <<>>

\* the chart list of a column against the target, by task and column type
bivariate_charts(task, type) ==
  IF task = <<"regression">> THEN
       IF type = "NUMERIC" THEN
            <<Chart("scatter", "BASIC"), Chart("scatter_trendline", "ADVANCED"),
              Chart("partial_dependence_plot", "ADVANCED")>>
       ELSE IF type = "CATEGORICAL" THEN
            <<Chart("boxplot", "BASIC"), Chart("violin_plot", "DIAGNOSTIC")>>
       ELSE <<>>
  ELSE IF task = <<"classification">> THEN
       IF type = "NUMERIC" THEN
            <<Chart("boxplot", "BASIC"), Chart("violin_plot", "DIAGNOSTIC")>>
       ELSE IF type = "CATEGORICAL" THEN
            <<Chart("countplot", "BASIC"), Chart("stacked_bar", "DIAGNOSTIC")>>
       ELSE <<>>
  ELSE IF task = <<"time-series">> THEN
       IF type = "NUMERIC" THEN
            <<Chart("lineplot", "BASIC"), Chart("lag_plot", "DIAGNOSTIC"),
              Chart("acf_pacf", "ADVANCED")>>
       ELSE <<>>
  ELSE <<>>

PairplotMaxRows == 1000

\* the names of the columns of one type, in the order of column_stats
ColsOfType(stats, type) ==
  LET of == SelectSeq(stats, LAMBDA s : s.type = type)
  IN  [k \in 1..Len(of) |-> of[k].name]

\* for cat_col in cat_cols: for num_col in num_cols
cat_num_pairs(cats, nums) ==
  [k \in 1..(Len(cats) * Len(nums)) |->
     <<cats[((k - 1) \div Len(nums)) + 1], nums[((k - 1) % Len(nums)) + 1]>>]

\* mutant: every ordered pair of two categorical columns
cat_pairs_BothOrders(cats) ==
  LET n   == Len(cats)
      all == [k \in 1..(n * n) |-> <<((k - 1) \div n) + 1, ((k - 1) % n) + 1>>]
      up  == SelectSeq(all, LAMBDA ij : ij[1] # ij[2])
  IN  [k \in 1..Len(up) |-> <<cats[up[k][1]], cats[up[k][2]]>>]

\* for i, cat1 in enumerate(cat_cols): for cat2 in cat_cols[i+1:]
cat_pairs(cats) ==
  LET n   == Len(cats)
      all == [k \in 1..(n * n) |-> <<((k - 1) \div n) + 1, ((k - 1) % n) + 1>>]
      up  == SelectSeq(all, LAMBDA ij : ij[1] < ij[2])
  IN  [k \in 1..Len(up) |-> <<cats[up[k][1]], cats[up[k][2]]>>]

\* is col the target: the target is None or a name
IsTarget(col, target) == target # None /\ target[1] = col

\* the univariate, bivariate and multivariate assignments, in program order
univariate_items(d, stats, target) ==
  LET cols == SelectSeq(stats, LAMBDA s : ~IsTarget(s.name, target))
  IN  [k \in 1..Len(cols) |-> <<cols[k].name, univariate_charts(d, cols[k])>>]

bivariate_items(stats, target, task) ==
  IF target # None /\ \E k \in 1..Len(stats) : stats[k].name = target[1]
    THEN LET cols == SelectSeq(stats, LAMBDA s : ~IsTarget(s.name, target))
         IN  [k \in 1..Len(cols) |->
                <<PairKey(cols[k].name, target[1]), bivariate_charts(task, cols[k].type)>>]
    ELSE <<>>

multivariate_items(d, stats) ==
  LET num_cols == ColsOfType(stats, "NUMERIC")
      cat_cols == ColsOfType(stats, "CATEGORICAL")
      cn == cat_num_pairs(cat_cols, num_cols)
      cc == cat_pairs(cat_cols)
  IN  (IF Len(num_cols) > 1
         THEN <<<<<<"numeric_correlation">>, <<Chart("heatmap", "BASIC")>>>>,
                <<<<"clustered_correlation">>, <<Chart("cluster_heatmap", "ADVANCED")>>>>>>
              \o (IF Len(d.idx) < PairplotMaxRows
                    THEN <<<<<<"pairplot">>, <<Chart("pairplot", "ADVANCED")>>>>>>
                    ELSE <<>>)
         ELSE <<>>)
      \o [k \in 1..Len(cn) |-> <<PairKey(cn[k][1], cn[k][2]), <<Chart("barplot", "BASIC")>>>>]
      \o [k \in 1..Len(cc) |->
            <<PairKey(cc[k][1], cc[k][2]), <<Chart("stacked_bar", "DIAGNOSTIC")>>>>]

visualization_rules(d, stats, target, task) ==
  PutAll(<<>>, univariate_items(d, stats, target)
               \o bivariate_items(stats, target, task)
               \o multivariate_items(d, stats))

\* df[col].dropna().skew() of a NUMERIC column that is not the target:
\* KeyError for a column the dataset lacks, TypeError on strings and on
\* datetime64
vis_raises(d, stats, target) ==
  \E k \in 1..Len(stats) :
    /\ stats[k].type = "NUMERIC"
    /\ ~IsTarget(stats[k].name, target)
    /\ \/ stats[k].name \notin Columns(d)
       \/ HoldsStrings(d, stats[k].name)
       \/ d.dtype[stats[k].name] = "datetime"

try_visualization_rules(d, stats, target, task) ==
  IF vis_raises(d, stats, target) THEN RuleProcessingError("visualization", "Exception")
  ELSE Decisions(visualization_rules(d, stats, target, task))

\* ---------------------------------------------------------------- Visualizer
Implemented == {"histogram", "histogram_kde", "histogram_log_scale", "boxplot",
                "scatter", "barplot", "heatmap", "feature_importance"}

\* feature.split("_vs_")
SplitAt(feature) == {k \in 1..Len(feature) : feature[k] = Vs}
Skipped == [kind |-> "none"]
Raised == [kind |-> "raise"]
Saved(feature, chart) == [kind |-> "path", path |-> <<feature, chart>>]

\* _render_chart: None for a chart it skips, the path of the file it saved,
\* or an exception. faulty holds the chart types whose drawing or saving
\* raises on this dataset and machine.
render_chart(d, feature, chart, stats, faulty) ==
  LET at   == SplitAt(feature)
      cut  == CHOOSE k \in at : TRUE
      col1 == IF at = {} THEN feature ELSE SubSeq(feature, 1, cut - 1)
      col2 == IF at = {} THEN None ELSE SubSeq(feature, cut + 1, Len(feature))
  IN  IF Cardinality(at) > 1 THEN Raised
      ELSE IF at # {} /\ (col1 \notin Columns(d) \/ col2 \notin Columns(d)) THEN Skipped
      ELSE IF at = {} /\ col1 \notin Columns(d) THEN Skipped
      ELSE IF chart \notin Implemented THEN Skipped
      ELSE IF chart = "feature_importance" THEN
             (IF \A k \in 1..Len(stats) : stats[k].name # feature THEN Skipped ELSE Raised)
      ELSE IF chart = "scatter" /\ at = {} THEN Raised
      ELSE IF chart \in faulty THEN Raised
      ELSE Saved(feature, chart)

\* the inner loop over one feature's chart list: a path is appended for a
\* saved chart; None and any exception add nothing
feature_paths(d, feature, charts, stats, faulty) ==
  LET saved == SelectSeq(charts,
                 LAMBDA c : render_chart(d, feature, c.chart, stats, faulty).kind = "path")
  IN  [k \in 1..Len(saved) |-> <<feature, saved[k].chart>>]

VisualizationError == [ok |-> FALSE, value |-> [kind |-> "VisualizationError"]]

\* mutant: the exception of one chart leaves generate_plots
generate_plots_Propagate(d, plan, stats, faulty) ==
  IF \E k \in 1..Len(plan) : \E j \in 1..Len(plan[k][2]) :
       render_chart(d, plan[k][1], plan[k][2][j].chart, stats, faulty).kind = "raise"
    THEN VisualizationError
    ELSE Decisions([k \in 1..Len(plan) |->
                      <<plan[k][1], feature_paths(d, plan[k][1], plan[k][2], stats, faulty)>>])

generate_plots(d, plan, stats, faulty) ==
  Decisions([k \in 1..Len(plan) |->
               <<plan[k][1], feature_paths(d, plan[k][1], plan[k][2], stats, faulty)>>])

\* ---------------------------------------------------------------- EDAEngine.run
\* The rules and the plots of one dataset, as EDAEngine.run calls them.
MaxCols == 5
Col(k) == <<"c" \o ToString(k)>>
TaskTypes == {None, <<"regression">>, <<"classification">>, <<"time-series">>}
PlanTypes == {"NUMERIC", "CATEGORICAL", "DATETIME"}
Step(k) == [i \in Rows0 |-> IF i < k THEN Num(0) ELSE Num(1)]

VisStart(in, target, task) ==
  /\ df = in.df
  /\ column_stats = in.stats
  /\ save_output = FALSE
  /\ pc = "call"
  /\ hist = <<>>
  /\ csv_written = FALSE
  /\ returned = NoDataset
  /\ error = "none"
  /\ target_column = target
  /\ task_type = task
  /\ rules = <<>>
  /\ plots = <<>>
  /\ caller_df = in.df
  /\ aliased = TRUE
  /\ NoEngine

\* up to MaxCols columns of every type pattern, all in the dataset, with no
\* target, the first or the last column or an unknown name as the target
PlanInputs ==
  \E n \in 1..MaxCols :
    \E types \in [1..n -> PlanTypes], target \in {None, <<Col(1)>>, <<Col(n)>>, <<ColY>>},
       task \in TaskTypes :
      LET stats == [k \in 1..n |-> [name |-> Col(k), type |-> types[k],
                                    missing_pct |-> <<0>>, unique |-> None]]
          data  == [c \in {Col(k) : k \in 1..n} |-> Step(2)]
      IN  VisStart([df |-> Frame(data, stats), stats |-> stats], target, task)

\* one column of every type, series and dtype next to a categorical column
\* that the dataset holds or lacks
DataInputs ==
  \E x \in SortedSeries, t \in ColType, dtype \in {"inferred", "object"},
     cs \in {{ColX}, {ColX, ColP}}, target \in {None, <<ColP>>} :
    LET stats == <<[name |-> ColX, type |-> t, missing_pct |-> <<0>>, unique |-> None],
                   [name |-> ColP, type |-> "CATEGORICAL", missing_pct |-> <<0>>,
                    unique |-> None]>>
    IN  VisStart([df |-> FrameAs([c \in cs |-> x], stats, dtype), stats |-> stats],
                 target, None)

VisInit == PlanInputs \/ DataInputs

VisualizationRules ==
  \E res \in {try_visualization_rules(df, column_stats, target_column, task_type)} :
      /\ pc = "call"
      /\ hist' = Append(hist, [stage |-> "visualization_rules", input |-> df,
                                ok |-> res.ok, output |-> res.value])
      /\ rules' = IF res.ok THEN res.value ELSE rules
      /\ pc' = IF res.ok THEN "plots" ELSE "raised"
      /\ error' = IF res.ok THEN error ELSE res.value.kind
      /\ UNCHANGED <<df, column_stats, save_output, csv_written, returned,
                     target_column, task_type, plots, caller, engine>>

Faults == {{}, {"boxplot"}, Implemented}

GeneratePlots ==
  \E faulty \in Faults :
    \E res \in {generate_plots(df, rules, column_stats, faulty)} :
        /\ pc = "plots"
        /\ hist' = Append(hist, [stage |-> "generate_plots", input |-> df, ok |-> res.ok,
                                  output |-> res.value, faulty |-> faulty])
        /\ plots' = IF res.ok THEN res.value ELSE plots
        /\ pc' = IF res.ok THEN "plotted" ELSE "raised"
        /\ error' = IF res.ok THEN error ELSE res.value.kind
        /\ UNCHANGED <<df, column_stats, save_output, csv_written, returned,
                       target_column, task_type, rules, caller, engine>>

VisNext == VisualizationRules \/ GeneratePlots

VisSpec == VisInit /\ [][VisNext]_vars

\* ---------------------------------------------------------------- summarizer
\* What the Gemini API does with the request: it answers, the client finds
\* no GEMINI_API_KEY and raises in its constructor, or the request fails.
LlmOutcomes == {"text", "no_api_key", "request_failed"}

Summary(value, calls) == [ok |-> TRUE, value |-> value, calls |-> calls]
SummaryError(kind, calls) == [ok |-> FALSE, value |-> [kind |-> kind], calls |-> calls]

\* The dict of the rule-based summary: rows and columns, the count of each
\* type, the columns with missing_pct > 0, the constant columns and those
\* with over 50% missing. `stats.missing_pct > 0` raises on None.
generate_summary_rule_based(d, stats) ==
  IF \E k \in 1..Len(stats) : stats[k].missing_pct = None
    THEN SummaryError("TypeError", <<>>)
    ELSE Summary([kind |-> "rule_based",
                  dataset_overview |-> <<Len(d.idx), Cardinality(Columns(d))>>,
                  feature_types |-> [t \in {stats[k].type : k \in 1..Len(stats)} |->
                                       Cardinality({k \in 1..Len(stats) : stats[k].type = t})],
                  missing_data |-> {stats[k].name : k \in {j \in 1..Len(stats) :
                                                             stats[j].missing_pct[1] > 0}},
                  potential_issues |->
                    {<<stats[k].name, "constant">> :
                       k \in {j \in 1..Len(stats) : stats[j].unique = <<1>>}}
                    \cup {<<stats[k].name, "over 50% missing">> :
                            k \in {j \in 1..Len(stats) :
                                     stats[j].missing_pct[1] > DropMissingPct}}],
                 <<>>)

\* client = GeminiClient(...); response = client.generate(prompt); any
\* exception becomes LLMError
generate_summary_llm(stats, outcome) ==
  IF outcome = "text"
    THEN Summary([kind |-> "llm", prompt |-> stats], <<"GeminiClient", "generate">>)
  ELSE IF outcome = "no_api_key" THEN SummaryError("LLMError", <<"GeminiClient">>)
  ELSE SummaryError("LLMError", <<"GeminiClient", "generate">>)

\* use_llm selects the summarizer; any exception becomes SummarizationError
generate_summary(d, stats, use_llm, outcome) ==
  CHOOSE out \in
    {IF r.ok THEN r ELSE SummaryError("SummarizationError", r.calls) :
       r \in {IF use_llm THEN generate_summary_llm(stats, outcome)
              ELSE generate_summary_rule_based(d, stats)}} : TRUE

\* def generate_summary(df, column_stats, use_llm: bool = True)
DefaultUseLlm == TRUE

\* ---------------------------------------------------------------- feature importance
\* A fitted model that shap can explain, and one for which shap raises.
Models == {None, <<"fitted">>, <<"unfitted">>}

\* compute_feature_importance(model, X): the features of X with their mean
\* absolute SHAP value (not modelled: only which features are scored); any
\* exception becomes FeatureImportanceError
compute_feature_importance(m, X) ==
  IF m = <<"fitted">> /\ Len(X.idx) > 0 /\ Columns(X) # {}
    THEN Decisions([features |-> Columns(X)])
    ELSE [ok |-> FALSE, value |-> [kind |-> "FeatureImportanceError"]]

\* "artifacts/visuals/feature_importance.png", whatever output_dir is
FeatureImportanceKey == <<"feature_importance">>
FeatureImportancePlot == <<<<"artifacts/visuals">>, "feature_importance">>

\* ---------------------------------------------------------------- EDAEngine.run
EdaStart(in, target, task, m, flag) ==
  /\ df = in.df
  /\ column_stats = <<>>
  /\ save_output = FALSE
  /\ pc = "extract"
  /\ hist = <<>>
  /\ csv_written = FALSE
  /\ returned = NoDataset
  /\ error = "none"
  /\ target_column = target
  /\ task_type = task
  /\ rules = <<>>
  /\ plots = <<>>
  /\ caller_df = in.df
  /\ aliased = TRUE
  /\ use_llm_summary = flag
  /\ profile = in.profile
  /\ model = m
  /\ summary = None
  /\ feature_importances = None
  /\ llm_calls = <<>>
  /\ result = None

\* a dataset with the column x and with or without the column price, a
\* profile report with statistics for both or none that can be read; every
\* target, model and flag
EdaInit ==
  \E x \in FewSeries, t \in {"NUMERIC", "CATEGORICAL"}, cs \in {{ColX}, {ColX, ColP}},
     readable \in BOOLEAN, m \in Models, flag \in BOOLEAN,
     target \in {None, <<ColP>>}, task \in {None, <<"regression">>} :
    LET stats == <<[name |-> ColX, type |-> t, missing_pct |-> <<0>>, unique |-> None],
                   [name |-> ColP, type |-> "NUMERIC", missing_pct |-> <<50>>,
                    unique |-> None]>>
    IN  EdaStart([df |-> Frame([c \in cs |-> x], stats),
                  profile |-> IF readable THEN <<stats>> ELSE None],
                 target, task, m, flag)

EdaStep(name, ok, output, next, exception) ==
  /\ hist' = Append(hist, [stage |-> name, input |-> df, ok |-> ok, output |-> output])
  /\ pc' = IF ok THEN next ELSE "raised"
  /\ error' = IF ok THEN error ELSE exception

\* column_stats = MetadataExtractor().extract_col_data(profile_json_path)
ExtractColData ==
  /\ pc = "extract"
  /\ EdaStep("extract_col_data", profile # None,
             IF profile # None THEN profile ELSE [kind |-> "MetadataError"],
             "summary", "MetadataError")
  /\ column_stats' = IF profile # None THEN profile[1] ELSE column_stats
  /\ UNCHANGED <<df, save_output, csv_written, returned, call, caller, engine>>

\* summary = generate_summary(df, column_stats)
GenerateSummary ==
  \E outcome \in LlmOutcomes :
    \E res \in {generate_summary(df, column_stats, DefaultUseLlm, outcome)} :
      /\ pc = "summary"
      /\ EdaStep("generate_summary", res.ok, res.value, "call", res.value.kind)
      /\ summary' = IF res.ok THEN <<res.value>> ELSE summary
      /\ llm_calls' = llm_calls \o res.calls
      /\ UNCHANGED <<df, column_stats, save_output, csv_written, returned, call, caller,
                     use_llm_summary, profile, model, feature_importances, result>>

\* mutant: a model alone is enough
FeatureImportance_ModelOnly ==
  \E X \in {IF target_column # None /\ target_column[1] \in Columns(df)
              THEN DropColumn(df, target_column[1]) ELSE df} :
    \E res \in {IF model = None THEN Decisions(None)
                ELSE compute_feature_importance(model, X)} :
      /\ pc = "plotted"
      /\ EdaStep("feature_importance", res.ok, res.value, "return", res.value.kind)
      /\ feature_importances' = IF res.ok THEN res.value ELSE feature_importances
      /\ plots' = IF res.ok /\ res.value # None
                    THEN Put(plots, FeatureImportanceKey, <<FeatureImportancePlot>>)
                    ELSE plots
      /\ UNCHANGED <<df, column_stats, save_output, csv_written, returned,
                     target_column, task_type, rules, caller,
                     use_llm_summary, profile, model, summary, llm_calls, result>>

\* feature_importances = None; if model is not None and target_column:
\* X = df.drop(columns=[target_column]) (KeyError for a column the dataset
\* lacks), compute_feature_importance(model, X), plots["feature_importance"]
FeatureImportance ==
  \E res \in {IF model = None \/ target_column = None THEN Decisions(None)
              ELSE IF target_column[1] \notin Columns(df)
                THEN [ok |-> FALSE, value |-> [kind |-> "KeyError"]]
              ELSE compute_feature_importance(model, DropColumn(df, target_column[1]))} :
      /\ pc = "plotted"
      /\ EdaStep("feature_importance", res.ok, res.value, "return", res.value.kind)
      /\ feature_importances' = IF res.ok THEN res.value ELSE feature_importances
      /\ plots' = IF res.ok /\ res.value # None
                    THEN Put(plots, FeatureImportanceKey, <<FeatureImportancePlot>>)
                    ELSE plots
      /\ UNCHANGED <<df, column_stats, save_output, csv_written, returned,
                     target_column, task_type, rules, caller,
                     use_llm_summary, profile, model, summary, llm_calls, result>>

\* return {"summary": ..., "plots": ..., "feature_importance": ...}
EdaReturn ==
  /\ pc = "return"
  /\ result' = <<[summary |-> summary[1], plots |-> plots,
                  feature_importance |-> feature_importances]>>
  /\ pc' = "done"
  /\ UNCHANGED <<df, column_stats, save_output, hist, csv_written, returned, error, call,
                 caller, use_llm_summary, profile, model, summary, feature_importances,
                 llm_calls>>

EdaNext ==
  ExtractColData \/ GenerateSummary \/ VisualizationRules \/ GeneratePlots
    \/ FeatureImportance \/ EdaReturn

EdaSpec == EdaInit /\ [][EdaNext]_vars

\* ---------------------------------------------------------------- properties
StageOrder == <<"missing_values", "outliers", "encoding", "transformations">>
\* the stage has just run: its call is the last of the history
Ran(stage) == Len(hist) > 0 /\ hist[Len(hist)].stage = stage
Call(stage) == hist[Len(hist)]

\* C1: run executes the four stages in the fixed order missing-values,
\* outliers, encoding/scaling, transformations, never one twice; each stage
\* starts only after the previous one has returned and receives the dataset
\* it returned; a run that returns has executed all four and returns the
\* dataset of the last.
C1_FixedStageOrder ==
  /\ Len(hist) <= Len(StageOrder)
  /\ \A k \in 1..Len(hist) : hist[k].stage = StageOrder[k]
  /\ \A k \in 2..Len(hist) : hist[k - 1].ok /\ hist[k].input = hist[k - 1].output
  /\ pc \in {"save", "done"} => Len(hist) = Len(StageOrder)
  /\ returned # NoDataset => returned[1] = hist[Len(StageOrder)].output

C1_Witness ==
  /\ pc = "done"
  /\ Len(hist) = Len(StageOrder)
  /\ \A k \in 1..Len(hist) : hist[k].output # hist[k].input

\* C2: if a stage raises, the run ends with PreprocessingError: the failed
\* stage is the last one executed, no dataset is returned and
\* preprocessed_dataset.csv is not written.
C2_FailureAbortsRun ==
  \A k \in 1..Len(hist) :
    ~hist[k].ok =>
      /\ k = Len(hist)
      /\ pc = "failed"
      /\ error = "PreprocessingError"
      /\ returned = NoDataset
      /\ ~csv_written

C2_Witness ==
  /\ pc = "failed"
  /\ save_output
  /\ Len(hist) = 3
  /\ hist[1].output # hist[1].input

RunStage(stage, d, stats) ==
  CASE stage = "missing_values" -> handle_missing_values(d, stats)
    [] stage = "outliers" -> handle_outliers(d, stats)
    [] stage = "encoding" -> encode_and_scale(d, stats, None)
    [] stage = "transformations" -> apply_transformations(d, stats)

\* column_stats without the columns that the dataset given to run had and
\* the dataset d no longer has
WithoutRemoved(d) ==
  SelectSeq(column_stats,
            LAMBDA s : ~(s.name \in Columns(hist[1].input) /\ s.name \notin Columns(d)))

\* C3: a column removed by an earlier stage is skipped by every later stage:
\* each stage does exactly what it would do if column_stats did not list the
\* removed columns, and in particular does not fail because of them.
C3_RemovedColumnsSkipped ==
  \A k \in 1..Len(hist) :
    LET skipped == RunStage(hist[k].stage, hist[k].input, WithoutRemoved(hist[k].input))
    IN  /\ hist[k].ok = skipped.ok
        /\ hist[k].ok => hist[k].output = skipped.df

StatsOf(c) == column_stats[CHOOSE k \in 1..Len(column_stats) : column_stats[k].name = c]
Listed == {column_stats[k].name : k \in 1..Len(column_stats)}
Decision(strategies, c) ==
  strategies[CHOOSE k \in 1..Len(strategies) : strategies[k][1] = c][2]
Decided(strategies) == {strategies[k][1] : k \in 1..Len(strategies)}
\* at most one decision per column
OnePerColumn(strategies) ==
  \A j, k \in 1..Len(strategies) : strategies[j][1] = strategies[k][1] => j = k

NoMissingReported(c) == StatsOf(c).missing_pct \in {None, <<0>>}

\* C4: a column whose statistics report missing_pct == 0 (or none) gets the
\* decision no-action from missing_value_rules, and the dataset returned by
\* handle_missing_values still has it, with every value (NaN included)
\* unchanged, whatever is done to the other columns.
C4_ZeroMissingUntouched ==
  Ran("missing_values") =>
    LET in  == Call("missing_values").input
        out == Call("missing_values").output
        strategies == missing_value_rules(in, column_stats)
    IN  \A c \in Listed \cap Columns(in) :
          NoMissingReported(c) =>
            /\ Decision(strategies, c) = "no-action"
            /\ Call("missing_values").ok =>
                 /\ c \in Columns(out)
                 /\ out.idx = in.idx
                 /\ out.cols[c] = in.cols[c]

C4_Witness ==
  /\ Ran("missing_values")
  /\ Call("missing_values").ok
  /\ LET in == Call("missing_values").input
         out == Call("missing_values").output
     IN  /\ ColX \in Columns(in) /\ ColP \in Columns(in)
         /\ NoMissingReported(ColX)
         /\ \E i \in Rows(in) : IsNaN(in.cols[ColX][i])
         /\ ~NoMissingReported(ColP)
         /\ ColP \in Columns(out)
         /\ out.cols[ColP] # in.cols[ColP]

\* C5: missing_value_rules gives every listed column present in the dataset
\* exactly one decision: no-action for missing_pct == 0; else drop-column
\* for missing_pct > 50 (50 itself is not dropped), whatever the type; else
\* by type: NUMERIC impute-median if the skewness of the non-missing values
\* exceeds 1 and impute-mean if not, CATEGORICAL and BOOLEAN impute-mode,
\* DATETIME impute-most-frequent-date, any other type no-action.
C5_MissingValueDecision ==
  Ran("missing_values") =>
    LET in == Call("missing_values").input
        strategies == missing_value_rules(in, column_stats)
        pct(c) == OrZero(StatsOf(c).missing_pct)
        type(c) == StatsOf(c).type
        skewed(c) == PandasSkewGt1(Sample(in, c), in.cols[c])
        dec(c) == Decision(strategies, c)
    IN  /\ Decided(strategies) = Listed \cap Columns(in)
        /\ OnePerColumn(strategies)
        /\ \A c \in Decided(strategies) :
             /\ pct(c) = 0 => dec(c) = "no-action"
             /\ pct(c) > 50 => dec(c) = "drop-column"
             /\ (pct(c) # 0 /\ pct(c) <= 50) =>
                  /\ (type(c) = "NUMERIC" /\ skewed(c)) => dec(c) = "impute-median"
                  /\ (type(c) = "NUMERIC" /\ ~skewed(c)) => dec(c) = "impute-mean"
                  /\ type(c) \in {"CATEGORICAL", "BOOLEAN"} => dec(c) = "impute-mode"
                  /\ type(c) = "DATETIME" => dec(c) = "impute-most-frequent-date"
                  /\ type(c) = "UNKNOWN" => dec(c) = "no-action"

C5_Witness ==
  /\ Ran("missing_values")
  /\ LET in == Call("missing_values").input
         strategies == missing_value_rules(in, column_stats)
     IN  /\ Decided(strategies) = {ColX, ColP}
         /\ StatsOf(ColX).missing_pct = <<50>>
         /\ Decision(strategies, ColX) = "impute-median"
         /\ StatsOf(ColP).type = "UNKNOWN"
         /\ Decision(strategies, ColP) = "drop-column"

\* C6: in missing_value_rules a listed column with no value left after
\* removing the missing ones gets the decision no-action, whatever
\* missing_pct its statistics report.
C6_EmptyColumnNoAction ==
  Ran("missing_values") =>
    LET in == Call("missing_values").input
        strategies == missing_value_rules(in, column_stats)
    IN  \A c \in Decided(strategies) :
          Sample(in, c) = {} => Decision(strategies, c) = "no-action"

\* The IQR fences of a sample, written out: Q1 - 1.5*(Q3 - Q1) and
\* Q3 + 1.5*(Q3 - Q1).
FenceLow(S, f) ==
  RSub(Quantile(S, f, 1, 4),
       RMul(Rat(3, 2), RSub(Quantile(S, f, 3, 4), Quantile(S, f, 1, 4))))
FenceHigh(S, f) ==
  RAdd(Quantile(S, f, 3, 4),
       RMul(Rat(3, 2), RSub(Quantile(S, f, 3, 4), Quantile(S, f, 1, 4))))
Outside(S, f) ==
  LET lo == FenceLow(S, f)
      hi == FenceHigh(S, f)
  IN  {i \in S : RLt(f[i], lo) \/ RLt(hi, f[i])}

\* C7: outlier_rules decides exactly for the NUMERIC columns present in the
\* dataset; with n non-missing values of which k lie outside the IQR fences:
\* n = 0 or k = 0 gives no-action, k/n > 0.20 gives cap-at-percentiles, and
\* 0 < k/n <= 0.20 (exactly 20% included) gives remove-outliers.
C7_OutlierDecision ==
  Ran("outliers") =>
    LET in == Call("outliers").input
        strategies == outlier_rules(in, column_stats)
    IN  /\ Decided(strategies) = {c \in Listed \cap Columns(in) : StatsOf(c).type = "NUMERIC"}
        /\ OnePerColumn(strategies)
        /\ \A c \in Decided(strategies) :
             LET S == Sample(in, c)
                 n == Cardinality(S)
                 k == IF n = 0 THEN 0 ELSE Cardinality(Outside(S, in.cols[c]))
                 dec == Decision(strategies, c)
             IN  /\ (n = 0 \/ k = 0) => dec = "no-action"
                 /\ 5 * k > n => dec = "cap-at-percentiles"
                 /\ (k > 0 /\ 5 * k <= n) => dec = "remove-outliers"

\* exactly 20% of the values are outliers, and another column is capped
C7_Witness ==
  /\ Ran("outliers")
  /\ LET in == Call("outliers").input
         strategies == outlier_rules(in, column_stats)
     IN  /\ Decided(strategies) = {ColX, ColP}
         /\ Decision(strategies, ColX) = "remove-outliers"
         /\ 5 * Cardinality(Outside(Sample(in, ColX), in.cols[ColX]))
              = Cardinality(Sample(in, ColX))
         /\ Decision(strategies, ColP) = "cap-at-percentiles"

\* The dataset handle_outliers holds before and after the k-th strategy.
OutBefore(in, strategies, k) == out_loop(in, SubSeq(strategies, 1, k - 1), 1)
OutAfter(in, strategies, k) == out_loop(in, SubSeq(strategies, 1, k), 1)

\* C8: for every column to which handle_outliers applies remove-outliers, no
\* row of the returned dataset holds a value of that column outside the IQR
\* fences computed on the column's sample just before its removal step,
\* also when several columns are processed in the call.
C8_RemoveOutliersInFences ==
  Ran("outliers") =>
    LET in == Call("outliers").input
        out == Call("outliers").output
        strategies == outlier_rules(in, column_stats)
    IN  \A k \in 1..Len(strategies) :
          strategies[k][2] = "remove-outliers" =>
            LET c == strategies[k][1]
                pre == OutBefore(in, strategies, k)
                S == Sample(pre, c)
                lo == FenceLow(S, pre.cols[c])
                hi == FenceHigh(S, pre.cols[c])
            IN  \A i \in Rows(out) :
                  ~IsNaN(out.cols[c][i]) =>
                    /\ S # {}
                    /\ RLe(lo, out.cols[c][i])
                    /\ RLe(out.cols[c][i], hi)

\* two columns each lose a row of their own in the same call
C8_Witness ==
  /\ Ran("outliers")
  /\ LET in == Call("outliers").input
         out == Call("outliers").output
         strategies == outlier_rules(in, column_stats)
     IN  /\ Len(strategies) = 2
         /\ strategies[1][2] = "remove-outliers"
         /\ strategies[2][2] = "remove-outliers"
         /\ Len(OutAfter(in, strategies, 1).idx) = Len(in.idx) - 1
         /\ Len(out.idx) = Len(in.idx) - 2

\* C9: when handle_outliers applies cap-at-percentiles to a column, the step
\* keeps every row and every other column as they are, keeps missing values
\* missing, and leaves every non-missing value of the column within
\* [p5, p95], the 5th and 95th percentiles of the column before capping;
\* the values of the column in the returned dataset lie within them too.
C9_CapWithinPercentiles ==
  Ran("outliers") =>
    LET in == Call("outliers").input
        out == Call("outliers").output
        strategies == outlier_rules(in, column_stats)
    IN  \A k \in 1..Len(strategies) :
          strategies[k][2] = "cap-at-percentiles" =>
            LET c == strategies[k][1]
                pre == OutBefore(in, strategies, k)
                post == OutAfter(in, strategies, k)
                S == Sample(pre, c)
                p5 == Quantile(S, pre.cols[c], 1, 20)
                p95 == Quantile(S, pre.cols[c], 19, 20)
                within(v) == IsNaN(v) \/ (Le(p5, v) /\ Le(v, p95))
            IN  /\ post.idx = pre.idx
                /\ Columns(post) = Columns(pre)
                /\ \A o \in Columns(pre) \ {c} : post.cols[o] = pre.cols[o]
                /\ \A i \in Rows(post) :
                     /\ IsNaN(post.cols[c][i]) = IsNaN(pre.cols[c][i])
                     /\ within(post.cols[c][i])
                /\ \A i \in Rows(out) : within(out.cols[c][i])

\* a capped column with a value raised and a value lowered, next to another
\* column that holds a missing value
C9_Witness ==
  /\ Ran("outliers")
  /\ LET in == Call("outliers").input
         strategies == outlier_rules(in, column_stats)
     IN  \E k \in 1..Len(strategies) :
           LET c == strategies[k][1]
               pre == OutBefore(in, strategies, k)
               post == OutAfter(in, strategies, k)
           IN  /\ strategies[k][2] = "cap-at-percentiles"
               /\ Columns(pre) = {ColX, ColP}
               /\ \E o \in Columns(pre) \ {c} : \E i \in Rows(pre) : IsNaN(pre.cols[o][i])
               /\ \E i, j \in Rows(pre) :
                    /\ Lt(pre.cols[c][i], post.cols[c][i])
                    /\ Lt(post.cols[c][j], pre.cols[c][j])

\* The outcome encode_and_scale holds before and after the k-th strategy.
EncBefore(in, strategies, k) == enc_loop(Ok(in), SubSeq(strategies, 1, k - 1), 1, None)
EncAfter(in, strategies, k) == enc_loop(Ok(in), SubSeq(strategies, 1, k), 1, None)

\* C10: encoding_rules decides exactly for the CATEGORICAL columns of
\* column_stats: unique <= 10 (no unique count counts as 0) gives
\* one-hot-encode, 10 < unique <= 50 target-encode, unique > 50
\* embedding-encode; the embedding-encode step changes nothing, and the
\* column comes out of encode_and_scale with the values it had.
C10_EncodingDecision ==
  Ran("encoding") =>
    LET in == Call("encoding").input
        out == Call("encoding").output
        strategies == encoding_rules(in, column_stats)
        unique(c) == IF StatsOf(c).unique = None THEN 0 ELSE StatsOf(c).unique[1]
    IN  /\ Decided(strategies) = {c \in Listed : StatsOf(c).type = "CATEGORICAL"}
        /\ OnePerColumn(strategies)
        /\ \A c \in Decided(strategies) :
             /\ unique(c) <= 10 => Decision(strategies, c) = "one-hot-encode"
             /\ (10 < unique(c) /\ unique(c) <= 50) => Decision(strategies, c) = "target-encode"
             /\ unique(c) > 50 => Decision(strategies, c) = "embedding-encode"
        /\ \A k \in 1..Len(strategies) :
             (strategies[k][2] = "embedding-encode" /\ EncBefore(in, strategies, k).ok) =>
               /\ EncAfter(in, strategies, k) = EncBefore(in, strategies, k)
               /\ (Call("encoding").ok /\ strategies[k][1] \in Columns(in)) =>
                    /\ strategies[k][1] \in Columns(out)
                    /\ \A i \in Rows(in) :
                         out.cols[strategies[k][1]][i] = in.cols[strategies[k][1]][i]

\* an embedding-encoded column next to a one-hot encoded one
C10_Witness ==
  /\ Ran("encoding")
  /\ Call("encoding").ok
  /\ LET in == Call("encoding").input
         strategies == encoding_rules(in, column_stats)
     IN  /\ Columns(in) = {ColX, ColP}
         /\ Len(strategies) = 2
         /\ strategies[1] = <<ColX, "one-hot-encode">>
         /\ StatsOf(ColX).unique = <<10>>
         /\ strategies[2] = <<ColP, "embedding-encode">>
         /\ Call("encoding").output # in

\* The outcome encode_and_scale holds before and after the k-th strategy
\* when it was called with the target t.
EncStepIn(in, strategies, k, t) == enc_loop(Ok(in), SubSeq(strategies, 1, k - 1), 1, t)
EncStepOut(in, strategies, k, t) == enc_loop(Ok(in), SubSeq(strategies, 1, k), 1, t)

\* C11: a call of encode_and_scale in which a column is decided
\* target-encode while target_column is None or no column of the dataset
\* the step works on raises PreprocessingError and returns no dataset; with
\* the target supplied and present (a numeric column without missing
\* values) the step succeeds on a column of the dataset and keeps the
\* columns' names and the rows.
C11_TargetEncodeNeedsTarget ==
  Ran("encode_and_scale") =>
    LET in == Call("encode_and_scale").input
        strategies == encoding_rules(in, column_stats)
    IN  \A k \in 1..Len(strategies) :
          strategies[k][2] = "target-encode" =>
            LET col == strategies[k][1]
                pre == EncStepIn(in, strategies, k, target_column)
                post == EncStepOut(in, strategies, k, target_column)
                present == /\ pre.ok
                           /\ target_column # None
                           /\ target_column[1] \in Columns(pre.df)
            IN  /\ ~present =>
                     /\ ~Call("encode_and_scale").ok
                     /\ pc = "raised"
                     /\ error = "PreprocessingError"
                     /\ returned = NoDataset
                /\ (/\ present
                    /\ col \in Columns(pre.df)
                    /\ pre.df.dtype[target_column[1]] # "datetime"
                    /\ Sample(pre.df, target_column[1]) = Rows(pre.df)) =>
                     /\ post.ok
                     /\ Columns(post.df) = Columns(pre.df)
                     /\ post.df.idx = pre.df.idx

\* a column is target-encoded with the target present, and the call returns
C11_Witness ==
  /\ Ran("encode_and_scale")
  /\ Call("encode_and_scale").ok
  /\ target_column = <<ColP>>
  /\ LET in == Call("encode_and_scale").input
         out == Call("encode_and_scale").output
     IN  /\ encoding_rules(in, column_stats) = <<<<ColX, "target-encode">>>>
         /\ in.dtype[ColP] # "datetime"
         /\ Sample(in, ColP) = Rows(in)
         /\ ColX \in Columns(out)
         /\ out.cols[ColX] # in.cols[ColX]

\* the one-hot-encode steps of the last call of encode_and_scale that work
\* on a dataset holding their column
OneHotSteps ==
  LET in == Call("encoding").input
      strategies == encoding_rules(in, column_stats)
  IN  {k \in 1..Len(strategies) :
         /\ strategies[k][2] = "one-hot-encode"
         /\ EncBefore(in, strategies, k).ok
         /\ strategies[k][1] \in Columns(EncBefore(in, strategies, k).df)
         /\ EncAfter(in, strategies, k).ok}
\* the columns the k-th step adds
Indicators(k) ==
  LET in == Call("encoding").input
      strategies == encoding_rules(in, column_stats)
  IN  Columns(EncAfter(in, strategies, k).df) \ Columns(EncBefore(in, strategies, k).df)

\* C12 as stated: one-hot encoding a column with k distinct (non-missing)
\* values removes the column and adds exactly k, or k - 1, indicator
\* columns, every other column kept.
C12_OneHotKColumns ==
  Ran("encoding") =>
    LET in == Call("encoding").input
        strategies == encoding_rules(in, column_stats)
    IN  \A k \in OneHotSteps :
          LET col == strategies[k][1]
              pre == EncBefore(in, strategies, k).df
              post == EncAfter(in, strategies, k).df
              n == NUnique(Sample(pre, col), pre.cols[col])
          IN  /\ col \notin Columns(post)
              /\ Columns(pre) \ {col} \subseteq Columns(post)
              /\ Cardinality(Indicators(k)) \in {n, n - 1}

\* C12, amended: one-hot encoding a column removes it and adds exactly one
\* indicator column per distinct value, a missing value counting as a value
\* of its own (k + 1 columns for k distinct non-missing values and a missing
\* one), every other column kept.
C12_OneHotPerCategory ==
  Ran("encoding") =>
    LET in == Call("encoding").input
        strategies == encoding_rules(in, column_stats)
    IN  \A k \in OneHotSteps :
          LET col == strategies[k][1]
              pre == EncBefore(in, strategies, k).df
              post == EncAfter(in, strategies, k).df
              n == NUnique(Sample(pre, col), pre.cols[col])
              missing == IF Sample(pre, col) = Rows(pre) THEN 0 ELSE 1
          IN  /\ col \notin Columns(post)
              /\ Columns(pre) \ {col} \subseteq Columns(post)
              /\ Cardinality(Indicators(k)) = n + missing

\* a column with two values and a missing one gets three indicators, next
\* to a column that is kept
C12_Witness ==
  /\ Ran("encoding")
  /\ Call("encoding").ok
  /\ \E k \in OneHotSteps :
       LET in == Call("encoding").input
           strategies == encoding_rules(in, column_stats)
           col == strategies[k][1]
           pre == EncBefore(in, strategies, k).df
       IN  /\ Cardinality(Columns(pre)) = 2
           /\ NUnique(Sample(pre, col), pre.cols[col]) = 2
           /\ Sample(pre, col) # Rows(pre)
           /\ Cardinality(Indicators(k)) = 3

\* C13: transformation_rules decides each listed column present in the
\* dataset by the first matching rule: empty -> drop (empty column);
\* constant -> drop (constant feature), before any type rule; for NUMERIC:
\* identifier-like -> drop, count-like, age-like, percentage-like ->
\* no-transform, money-like -> log-transform when skewed and all positive
\* and standard-scaling otherwise, and else skewed and positive ->
\* log-transform, range over 1000 -> standard-scaling, else
\* min-max-scaling.
C13_TransformationPriority ==
  (Ran("run_preprocessing_rules") /\ Call("run_preprocessing_rules").ok) =>
    LET in == Call("run_preprocessing_rules").input
        strategies == Call("run_preprocessing_rules").output["transformations"]
    IN  /\ Decided(strategies) = Listed \cap Columns(in)
        /\ OnePerColumn(strategies)
        /\ \A k \in 1..Len(column_stats) :
             LET c == column_stats[k].name
                 dec == Decision(strategies, c)
                 S == Sample(in, c)
                 constant == S # {} /\ NUnique(S, in.cols[c]) = 1
                 numeric == /\ S # {}
                            /\ ~constant
                            /\ column_stats[k].type = "NUMERIC"
                 id == numeric /\ is_id_like(in, c)
                 count == numeric /\ ~id /\ is_count_like(in, c)
                 age == numeric /\ ~id /\ ~count /\ is_age_like(in, c)
                 pct == numeric /\ ~id /\ ~count /\ ~age /\ is_percentage_like(in, c)
                 other == numeric /\ ~id /\ ~count /\ ~age /\ ~pct
                 money == other /\ is_money_like(c)
             IN  c \in Columns(in) =>
                   /\ S = {} => dec = "drop (empty column)"
                   /\ constant => dec = "drop (constant feature)"
                   /\ id => dec = "drop (identifier-like)"
                   /\ count => dec = "no-transform (count-like)"
                   /\ age => dec = "no-transform (age-like)"
                   /\ pct => dec = "no-transform (percentage/ratio)"
                   /\ (money /\ skewed_positive(in, c)) => dec = "log-transform"
                   /\ (money /\ ~skewed_positive(in, c)) => dec = "standard-scaling"
                   /\ (other /\ ~money /\ skewed_positive(in, c)) => dec = "log-transform"
                   /\ (other /\ ~money /\ ~skewed_positive(in, c) /\ wide_range(in, c))
                        => dec = "standard-scaling"
                   /\ (other /\ ~money /\ ~skewed_positive(in, c) /\ ~wide_range(in, c))
                        => dec = "min-max-scaling"

\* a column named for an age that holds an identifier, and so matches the
\* identifier, age and percentage rules at once, is dropped as an identifier
C13_Witness ==
  /\ Ran("run_preprocessing_rules")
  /\ Call("run_preprocessing_rules").ok
  /\ LET in == Call("run_preprocessing_rules").input
         strategies == Call("run_preprocessing_rules").output["transformations"]
     IN  /\ ColA \in Columns(in)
         /\ column_stats[1].type = "NUMERIC"
         /\ is_id_like(in, ColA)
         /\ is_age_like(in, ColA)
         /\ is_percentage_like(in, ColA)
         /\ Decision(strategies, ColA) = "drop (identifier-like)"

\* C14: run_preprocessing_rules changes neither the dataset nor the column
\* statistics, and a call that returns gives exactly the four families
\* transformations, missing_values, outliers and encodings, each evaluated
\* on that same dataset and statistics, with at most one decision per column
\* in each family.
C14_FourFamiliesSameSnapshot ==
  [][RunPreprocessingRules =>
       /\ df' = df
       /\ column_stats' = column_stats
       /\ hist'[Len(hist')].input = df
       /\ hist'[Len(hist')].ok =>
            LET out == hist'[Len(hist')].output
            IN  /\ DOMAIN out = {"transformations", "missing_values", "outliers", "encodings"}
                /\ out["transformations"] = transformation_rules(df, column_stats)
                /\ out["missing_values"] = missing_value_rules(df, column_stats)
                /\ out["outliers"] = outlier_rules(df, column_stats)
                /\ out["encodings"] = encoding_rules(df, column_stats)
                /\ \A f \in DOMAIN out : OnePerColumn(out[f])]_vars

\* a call on a two-column dataset returned decisions of all four families
C14_Witness ==
  /\ Ran("run_preprocessing_rules")
  /\ Call("run_preprocessing_rules").ok
  /\ Cardinality(Columns(df)) = 2
  /\ LET out == Call("run_preprocessing_rules").output
     IN  /\ Len(out["transformations"]) > 0
         /\ Len(out["missing_values"]) > 0
         /\ Len(out["outliers"]) > 0
         /\ Len(out["encodings"]) > 0

\* the families whose rule function raises on the dataset, in call order
Raisers(d, stats) ==
  {f \in DOMAIN Families :
     \/ f = 1 /\ tr_raises(d, stats)
     \/ f = 2 /\ mv_raises(d, stats)
     \/ f = 3 /\ out_raises(d, stats)}
FamilyNamed == <<"transformation", "missing value", "outlier", "encoding">>

\* C15: an exception raised while a rule function evaluates a column makes
\* that rule function fail with a RuleProcessingError that carries the
\* original cause and names the family, and run_preprocessing_rules fails
\* with a RuleProcessingError in turn; no decision map is returned, neither
\* for the families that passed nor for the others.
C15_RuleErrorPropagates ==
  Ran("run_preprocessing_rules") =>
    LET in == Call("run_preprocessing_rules").input
        out == Call("run_preprocessing_rules").output
        raisers == Raisers(in, column_stats)
        first == CHOOSE f \in raisers : \A g \in raisers : f <= g
    IN  /\ Call("run_preprocessing_rules").ok <=> raisers = {}
        /\ raisers # {} =>
             /\ pc = "raised"
             /\ error = "RuleProcessingError"
             /\ returned = NoDataset
             /\ out.kind = "RuleProcessingError"
             /\ out.cause.kind = "RuleProcessingError"
             /\ out.cause.family = FamilyNamed[first]
             /\ out.cause.cause = "TypeError"
             /\ DOMAIN out = {"kind", "family", "cause"}

\* the transformation rules pass, the missing-value rules raise on a column
\* of strings typed NUMERIC, and the call fails naming the missing values
C15_Witness ==
  /\ Ran("run_preprocessing_rules")
  /\ ~Call("run_preprocessing_rules").ok
  /\ LET in == Call("run_preprocessing_rules").input
     IN  /\ ~tr_raises(in, column_stats)
         /\ Len(transformation_rules(in, column_stats)) > 0
         /\ mv_raises(in, column_stats)
         /\ error = "RuleProcessingError"
         /\ Call("run_preprocessing_rules").output.cause.family = "missing value"

\* the decisions that ask for no change
Idle == {"no-action", "no-transform (count-like)", "no-transform (age-like)",
         "no-transform (percentage/ratio)"}

\* C16: run_preprocessing_rules on the dataset the pipeline has returned (no
\* missing value left, no outlier left), with the same column statistics,
\* yields only no-action / no-transform decisions in every family.
C16_EngineIdempotent ==
  pc = "done" =>
    LET out == returned[1]
        again == run_preprocessing_rules(out, column_stats)
    IN  (/\ again.ok
         /\ \A c \in Columns(out) : Sample(out, c) = Rows(out)
         /\ \A k \in 1..Len(outlier_rules(out, column_stats)) :
              outlier_rules(out, column_stats)[k][2] = "no-action")
        => \A f \in DOMAIN again.value :
             \A k \in 1..Len(again.value[f]) : again.value[f][k][2] \in Idle

\* visualization_rules has returned its plan
Planned == pc \in {"plots", "plotted"}
CountOfType(type) == Cardinality({k \in 1..Len(column_stats) : column_stats[k].type = type})
\* the keys '<a>_vs_<b>' of the plan with a of one type and b of another
CrossKeys(ta, tb) ==
  {key \in Keys(rules) :
     /\ Len(key) = 3
     /\ key[2] = Vs
     /\ <<key[1]>> \in Listed /\ StatsOf(<<key[1]>>).type = ta
     /\ <<key[3]>> \in Listed /\ StatsOf(<<key[3]>>).type = tb}

\* C17: with n NUMERIC and c CATEGORICAL columns and no target, the plan
\* holds numeric_correlation and clustered_correlation, one chart each,
\* exactly when n >= 2, exactly c*n categorical-vs-numeric keys and exactly
\* c*(c-1)/2 categorical-vs-categorical keys: one per unordered pair, no
\* column with itself, no pair in both orders.
C17_CrossKeyCounts ==
  (Planned /\ target_column = None) =>
    LET n == CountOfType("NUMERIC")
        c == CountOfType("CATEGORICAL")
        cc == CrossKeys("CATEGORICAL", "CATEGORICAL")
    IN  /\ <<"numeric_correlation">> \in Keys(rules) <=> n >= 2
        /\ <<"clustered_correlation">> \in Keys(rules) <=> n >= 2
        /\ n >= 2 => /\ Len(ChartsOf(rules, <<"numeric_correlation">>)) = 1
                     /\ Len(ChartsOf(rules, <<"clustered_correlation">>)) = 1
        /\ Cardinality(CrossKeys("CATEGORICAL", "NUMERIC")) = c * n
        /\ 2 * Cardinality(cc) = c * (c - 1)
        /\ \A key \in cc : key[1] # key[3] /\ <<key[3], Vs, key[1]>> \notin cc
        /\ OnePerColumn(rules)

\* three numeric and two categorical columns: six and one cross keys
C17_Witness ==
  /\ Planned
  /\ target_column = None
  /\ CountOfType("NUMERIC") = 3
  /\ CountOfType("CATEGORICAL") = 2
  /\ Cardinality(CrossKeys("CATEGORICAL", "NUMERIC")) = 6
  /\ Cardinality(CrossKeys("CATEGORICAL", "CATEGORICAL")) = 1
  /\ <<"numeric_correlation">> \in Keys(rules)

\* C18: every column of column_stats but the target has its own key with
\* the chart list of its type, and the target has no key of its own; a
\* NUMERIC column gets histogram[BASIC], histogram_kde[DIAGNOSTIC],
\* histogram_log_scale[ADVANCED] if and only if |skew| > 1, and
\* boxplot[BASIC], in this order.
C18_UnivariateCharts ==
  Planned =>
    \A k \in 1..Len(column_stats) :
      LET col == column_stats[k].name
          type == column_stats[k].type
      IN  IF IsTarget(col, target_column) THEN col \notin Keys(rules)
          ELSE /\ col \in Keys(rules)
               /\ ChartsOf(rules, col) =
                    CASE type = "NUMERIC" ->
                           IF PandasAbsSkewGt1(Sample(df, col), df.cols[col])
                             THEN <<Chart("histogram", "BASIC"),
                                    Chart("histogram_kde", "DIAGNOSTIC"),
                                    Chart("histogram_log_scale", "ADVANCED"),
                                    Chart("boxplot", "BASIC")>>
                             ELSE <<Chart("histogram", "BASIC"),
                                    Chart("histogram_kde", "DIAGNOSTIC"),
                                    Chart("boxplot", "BASIC")>>
                      [] type = "CATEGORICAL" ->
                           <<Chart("barplot", "BASIC"), Chart("pareto_chart", "DIAGNOSTIC"),
                             Chart("proportion_chart", "ADVANCED")>>
                      [] type = "DATETIME" ->
                           <<Chart("lineplot", "BASIC"),
                             Chart("seasonal_decompose", "DIAGNOSTIC"),
                             Chart("rolling_avg_plot", "ADVANCED")>>
                      [] type = "BOOLEAN" ->
                           <<Chart("barplot", "BASIC"),
                             Chart("class_balance_plot", "DIAGNOSTIC")>>
                      [] OTHER -> <<>>

\* a left-skewed numeric column gets the four charts, next to a target
\* column that gets no key
C18_Witness ==
  /\ Planned
  /\ target_column = <<ColP>>
  /\ ColP \in Listed /\ ColP \notin Keys(rules)
  /\ StatsOf(ColX).type = "NUMERIC"
  /\ M3(Sample(df, ColX), df.cols[ColX]) < 0
  /\ Len(ChartsOf(rules, ColX)) = 4
  /\ ChartsOf(rules, ColX)[3] = Chart("histogram_log_scale", "ADVANCED")

\* C19 as stated: with a target listed in column_stats and a task type, the
\* plan maps '<col>_vs_<target>' of every other column to the charts of the
\* task and the column's type, whatever the type of the target.
C19_TargetPairCharts ==
  (/\ Planned
   /\ target_column # None
   /\ target_column[1] \in Listed
   /\ task_type # None) =>
    \A k \in 1..Len(column_stats) :
      LET col == column_stats[k].name
          key == col \o <<Vs>> \o target_column[1]
      IN  ~IsTarget(col, target_column) =>
            /\ key \in Keys(rules)
            /\ ChartsOf(rules, key) = bivariate_charts(task_type, column_stats[k].type)

\* the columns a feature key refers to
FeatureCols(key) ==
  IF Len(key) = 3 /\ key[2] = Vs THEN {<<key[1]>>, <<key[3]>>} ELSE {key}

\* C20: generate_plots never fails because of one chart. A chart whose
\* rendering raises, whose type is not implemented or whose column (either
\* column of a '_vs_' key) the dataset lacks is skipped, every other chart of
\* the plan is still rendered, and the result has a key for every feature
\* key of the plan.
C20_ChartFailuresSkipped ==
  Ran("generate_plots") =>
    LET faulty == Call("generate_plots").faulty
    IN  /\ Call("generate_plots").ok
        /\ pc = "plotted"
        /\ error = "none"
        /\ Len(plots) = Len(rules)
        /\ \A k \in 1..Len(rules) :
             LET key == rules[k][1]
                 charts == rules[k][2]
                 paths == Range(plots[k][2])
             IN  /\ plots[k][1] = key
                 /\ paths \subseteq {<<key, charts[j].chart>> : j \in 1..Len(charts)}
                 /\ \A j \in 1..Len(charts) :
                      LET skipped == \/ charts[j].chart \in faulty
                                     \/ charts[j].chart \notin Implemented
                                     \/ ~(FeatureCols(key) \subseteq Columns(df))
                      IN  <<key, charts[j].chart>> \in paths <=> ~skipped

\* boxplots raise: the histogram of a column is saved and its boxplot is
\* not, the unimplemented charts of a column the dataset lacks and the
\* chart of a pair with that column are skipped, and every key is there
C20_Witness ==
  /\ Ran("generate_plots")
  /\ Call("generate_plots").ok
  /\ Call("generate_plots").faulty = {"boxplot"}
  /\ ColP \notin Columns(df)
  /\ Keys(plots) = {ColX, ColP, PairKey(ColP, ColX)}
  /\ ChartsOf(rules, ColX)[Len(ChartsOf(rules, ColX))] = Chart("boxplot", "BASIC")
  /\ <<ColX, "histogram">> \in Range(ChartsOf(plots, ColX))
  /\ <<ColX, "boxplot">> \notin Range(ChartsOf(plots, ColX))
  /\ ChartsOf(plots, ColP) = <<>>
  /\ ChartsOf(rules, PairKey(ColP, ColX)) = <<Chart("barplot", "BASIC")>>
  /\ ChartsOf(plots, PairKey(ColP, ColX)) = <<>>

\* ---------------------------------------------------------------- BOOLEAN columns
\* The BOOLEAN columns of column_stats that hold, in the dataset d, two
\* distinct values; True and False are held as 1 and 0.
BoolCols(d) ==
  {c \in Listed \cap Columns(d) :
     /\ StatsOf(c).type = "BOOLEAN"
     /\ NUnique(Sample(d, c), d.cols[c]) > 1
     /\ \A i \in Rows(d) : d.cols[c][i] \in {NaN, Num(0), Num(1)}}

\* the column is integer-typed and every row holds 0 or 1
IsBits(d, c) ==
  /\ d.dtype[c] = "int"
  /\ d.root[c] = Num(1)
  /\ d.form[c] = "lin"
  /\ \A i \in Rows(d) : d.cols[c][i] \in {Num(0), Num(1)}

ToInt == "convert to int (0/1)"

\* C22 as stated: for every BOOLEAN column of the dataset given to run that
\* is non-empty and not constant, the decision is 'convert to int (0/1)' and
\* a completed run returns the column, integer-typed with values 0 and 1.
C22_BooleanAlwaysKept ==
  pc = "done" =>
    \A c \in BoolCols(hist[1].input) :
      /\ Decision(transformation_rules(hist[1].input, column_stats), c) = ToInt
      /\ c \in Columns(returned[1])
      /\ IsBits(returned[1], c)

\* C22 (amended): transformation_rules decides 'convert to int (0/1)' for
\* every BOOLEAN column that is non-empty and not constant in the dataset it
\* is given; when the transformation stage of run receives such a column and
\* run completes, the returned dataset holds the column, integer-typed and
\* with only the values 0 and 1.
C22_BooleanToInt ==
  /\ ~tr_raises(df, column_stats) =>
       \A c \in BoolCols(df) :
         Decision(transformation_rules(df, column_stats), c) = ToInt
  /\ pc = "done" =>
       \A c \in BoolCols(hist[Len(StageOrder)].input) :
         /\ c \in Columns(returned[1])
         /\ IsBits(returned[1], c)

\* a BOOLEAN column with a missing value, imputed by the first stage and
\* converted by the last one
C22_Witness ==
  /\ pc = "done"
  /\ ColX \in BoolCols(hist[Len(StageOrder)].input)
  /\ hist[1].input.dtype[ColX] = "float"
  /\ hist[Len(StageOrder)].input.dtype[ColX] = "float"
  /\ IsBits(returned[1], ColX)

\* ---------------------------------------------------------------- run without a target
\* the dataset and statistics run was entered with
GivenFrame == IF hist = <<>> THEN df ELSE hist[1].input
\* column_stats lists a CATEGORICAL column of the given dataset with
\* 10 < unique <= 50
HasMediumCardinality ==
  \E k \in 1..Len(column_stats) :
    /\ column_stats[k].name \in Columns(GivenFrame)
    /\ column_stats[k].type = "CATEGORICAL"
    /\ OrZero(column_stats[k].unique) > OneHotMaxCardinality
    /\ OrZero(column_stats[k].unique) <= TargetMaxCardinality
Ended == pc \in {"failed", "done"}

C25_OneHotPreservesRows ==
  Ran("encoding") =>
    LET in == Call("encoding").input
        strategies == encoding_rules(in, column_stats)
    IN  \A k \in 1..Len(strategies) :
          LET col == strategies[k][1]
              pre == EncBefore(in, strategies, k)
              post == EncAfter(in, strategies, k)
          IN  (strategies[k][2] = "one-hot-encode" /\ pre.ok /\ post.ok) =>
                /\ post.df.idx = pre.df.idx
                /\ \A i \in Rows(pre.df) :
                     LET v == pre.df.cols[col][i]
                         n == Derived(col, CatName(v))
                     IN  /\ n \in Columns(post.df)
                         /\ i \in DOMAIN post.df.cols[n]
                         /\ post.df.cols[n][i] = Num(1)

\* ---------------------------------------------------------------- removed rows
\* C26: a remove-outliers step of handle_outliers removes exactly the rows
\* whose value in the column is below the lower or above the upper IQR
\* bound; every other row, a row with a missing value in the column
\* included, is kept, in its place and with its values.
C26_RemovesExactlyOutliers ==
  (Ran("outliers") /\ Call("outliers").ok) =>
    LET in == Call("outliers").input
        strategies == outlier_rules(in, column_stats)
    IN  \A k \in 1..Len(strategies) :
          LET col == strategies[k][1]
              pre == OutBefore(in, strategies, k)
              post == OutAfter(in, strategies, k)
              f == pre.cols[col]
              lo == lower_bound(Sample(pre, col), f)
              hi == upper_bound(Sample(pre, col), f)
              outside(i) == Lt(f[i], lo) \/ Lt(hi, f[i])
          IN  (strategies[k][2] = "remove-outliers" /\ col \in Columns(pre)) =>
                /\ post.idx = SelectSeq(pre.idx, LAMBDA i : ~outside(i))
                /\ Columns(post) = Columns(pre)
                /\ \A c \in Columns(pre) : \A i \in Rows(post) :
                     post.cols[c][i] = pre.cols[c][i]

\* ---------------------------------------------------------------- scaled before transformed
\* The column holds standardized values: mean 0 and, unless all its values
\* are equal, variance 1 (the stored numbers are the deviations from the
\* mean and root their variance).
IsStandardized(d, c) ==
  LET S == Sample(d, c)
      f == d.cols[c]
  IN  /\ d.dtype[c] = "float"
      /\ d.form[c] = "lin"
      /\ S # {} =>
           /\ Mean(S, f) = Num(0)
           /\ d.root[c] = (IF Variance(S, f) = Num(0) THEN Num(1) ELSE Variance(S, f))

NumericCols(d) == {c \in Listed \cap Columns(d) : StatsOf(c).type = "NUMERIC"}
Scalings == {"standard-scaling", "min-max-scaling"}

\* C27: in a run the transformation stage follows the encoding stage and
\* receives every NUMERIC column still present standard-scaled; it derives
\* its decisions from the scaled values, so it never decides log-transform
\* for a NUMERIC column nor applies it, and a column it scales had been
\* scaled before.
C27_ScaledBeforeTransformed ==
  \A k \in 1..Len(hist) :
    hist[k].stage = "transformations" =>
      LET in == hist[k].input
          decisions == transformation_rules(in, column_stats)
      IN  /\ k > 1
          /\ hist[k - 1].stage = "encoding"
          /\ in = hist[k - 1].output
          /\ \A c \in NumericCols(in) :
               /\ IsStandardized(in, c)
               /\ Decision(decisions, c) # "log-transform"
               /\ c \in Columns(hist[k].output) => hist[k].output.form[c] # "log1p"
               /\ Decision(decisions, c) \in Scalings =>
                    in.cols[c] # hist[1].input.cols[c] \/ in.root[c] # Num(1)

\* a column of positive, skewed values that the transformation stage would
\* log-transform as given to run, and min-max scales after the encoding
\* stage has standardized it
C27_Witness ==
  /\ pc = "done"
  /\ ColX \in NumericCols(hist[Len(StageOrder)].input)
  /\ skewed_positive(hist[1].input, ColX)
  /\ ~skewed_positive(hist[Len(StageOrder)].input, ColX)
  /\ Decision(transformation_rules(hist[Len(StageOrder)].input, column_stats), ColX)
       = "min-max-scaling"
  /\ returned[1].cols[ColX] # hist[Len(StageOrder)].input.cols[ColX]

\* ---------------------------------------------------------------- the caller's dataset
\* C23: a preprocessing run works on its own copy: whatever the stages of
\* run do, the DataFrame object the caller passed holds what it held when
\* run was entered.
C23_CallerDatasetUntouched ==
  caller_df = GivenFrame

\* ---------------------------------------------------------------- rendered charts
\* the keys of the plan that stand for the whole dataset, not for a column
DatasetKeys == {<<"numeric_correlation">>, <<"clustered_correlation">>, <<"pairplot">>}
\* the data a plan key needs is in the dataset: its column or columns, or
\* for a dataset key every NUMERIC column of column_stats
DataPresent(key) ==
  IF key \in DatasetKeys
    THEN {c \in Listed : StatsOf(c).type = "NUMERIC"} \subseteq Columns(df)
    ELSE FeatureCols(key) \subseteq Columns(df)

\* C29: when no chart raises, generate_plots returns under its key a path
\* for every chart of the plan whose type the Visualizer implements and
\* whose data the dataset holds; in particular the heatmap of
\* numeric_correlation.
C29_ImplementedChartsRendered ==
  (Ran("generate_plots") /\ Call("generate_plots").ok
     /\ Call("generate_plots").faulty = {}) =>
    \A k \in 1..Len(rules) : \A j \in 1..Len(rules[k][2]) :
      LET key == rules[k][1]
          chart == rules[k][2][j].chart
      IN  (chart \in Implemented /\ DataPresent(key)) =>
            /\ plots[k][1] = key
            /\ <<key, chart>> \in Range(plots[k][2])

\* ---------------------------------------------------------------- plan entries
\* C30: every key of the plan visualization_rules returns maps to a
\* non-empty list of entries with a chart and a level, whatever the column
\* types, the target and the task type.
C30_NoEmptyPlanEntry ==
  Planned =>
    \A k \in 1..Len(rules) :
      /\ rules[k][2] # <<>>
      /\ \A j \in 1..Len(rules[k][2]) : DOMAIN rules[k][2][j] = {"chart", "level"}

\* ---------------------------------------------------------------- EDAEngine.run: order and result
EdaOrder == <<"extract_col_data", "generate_summary", "visualization_rules",
              "generate_plots", "feature_importance">>

\* C21: EDAEngine.run extracts the column statistics, generates the summary,
\* computes the visualization plan, renders the plots and then handles
\* feature importance, in this order; it returns one dict with the keys
\* summary, plots and feature_importance holding what these steps produced;
\* feature importance is computed exactly when a model and a target column
\* were both given and is None otherwise; a step that raises is the last
\* one executed, its exception reaches the caller and nothing is returned.
C21_EngineStepsInOrder ==
  /\ Len(hist) <= Len(EdaOrder)
  /\ \A k \in 1..Len(hist) :
       /\ hist[k].stage = EdaOrder[k]
       /\ ~hist[k].ok => k = Len(hist) /\ pc = "raised" /\ error = hist[k].output.kind
  /\ pc = "raised" => Len(hist) > 0 /\ ~hist[Len(hist)].ok
  /\ result # None <=> pc = "done"
  /\ pc \in {"return", "done"} =>
       /\ Len(hist) = Len(EdaOrder)
       /\ \A k \in 1..Len(hist) : hist[k].ok
       /\ column_stats = hist[1].output[1]
       /\ summary = <<hist[2].output>>
       /\ rules = hist[3].output
       /\ feature_importances = hist[5].output
       /\ feature_importances # None <=> (model # None /\ target_column # None)
       /\ feature_importances # None =>
            /\ feature_importances.features = Columns(df) \ {target_column[1]}
            /\ plots = Put(hist[4].output, FeatureImportanceKey, <<FeatureImportancePlot>>)
       /\ feature_importances = None => plots = hist[4].output
  /\ result # None =>
       result[1] = [summary |-> hist[2].output, plots |-> plots,
                    feature_importance |-> feature_importances]

\* a run with a model and a target returns the importances of the other
\* column and the feature_importance plot next to the rendered ones
C21_Witness ==
  /\ pc = "done"
  /\ model # None
  /\ target_column = <<ColP>>
  /\ result[1].feature_importance = [features |-> {ColX}]
  /\ Keys(result[1].plots) = Keys(rules) \cup {FeatureImportanceKey}
  /\ \E k \in 1..Len(hist[4].output) : hist[4].output[k][2] # <<>>

\* C28: an engine constructed with use_llm_summary = False produces the
\* rule-based summary and makes no call to the LLM summarizer or its
\* client; only use_llm_summary = True selects the LLM.
C28_FlagSelectsSummarizer ==
  ~use_llm_summary =>
    /\ llm_calls = <<>>
    /\ summary # None => summary[1].kind = "rule_based"

====
